---- MODULE Spec2Model ----
(***************************************************************************)
(* The phase engine of one game room: the room state (app/game/state.py),  *)
(* the registry entry of the room (app/game/manager.py), role assignment   *)
(* (app/game/roles.py), the PhaseController with its timer tasks           *)
(* (app/game/phase.py) and the socket handlers that drive them             *)
(* (app/game/events.py).  Every asyncio task is an element of the bag      *)
(* `tasks`; a step of the model runs one task from one suspension point    *)
(* (an awaited emit or sleep) to the next, which is the granularity at     *)
(* which the event loop interleaves them.  The room has human players      *)
(* only, so AIController.on_phase_change returns at once                   *)
(* (controller.py:136), and its roster does not change during the game.    *)
(***************************************************************************)
EXTENDS Integers, Sequences, FiniteSets, Bags, TLC

\* ---------------------------------------------------------------- bounds
\* Requests the clients send in one run: start_game, skip_to_voting.
MaxStarts == 2
MaxSkips == 1
\* Day votes the players submit in one run of the three-player room.
MaxVotes == 1
\* Night actions in one run of the four-player room (SpecNight, SpecFail).
MaxActions == 3
\* Day votes, and night actions, in one run of the four-player game
\* (SpecGame).
MaxBallots == 2
\* Emits that raise in one run of SpecFail.
MaxFails == 1
\* Direct calls of the submit methods of GameState in one run (SpecSubmit).
MaxCalls == 2
\* Voters of a tally drawn for the plurality functions (SpecTally).
MaxVoters == 3
\* Largest roster drawn for the role functions (SpecRoles), and calls of
\* assign_roles on it.
MaxRoster == 6
MaxDeals == 1
\* Calls of the manager (create, join, leave, disconnect) in SpecManager.
MaxOps == 5
\* Calls of join_room while the game starts (SpecJoin).
MaxJoins == 2
\* leave_room requests in one run (SpecLeave).
MaxLeaves == 1
\* leave_room requests in SpecGone: the three players can all leave.
MaxDepartures == 3
\* start_game and skip_to_voting requests in SpecAsk.
MaxAsks == 3
\* join_room requests on the started room (SpecRoute).
MaxRejoins == 1
\* send_message requests of the humans, and entries of the chat log, in
\* SpecChat.
MaxChats == 1
MaxMessages == 2
\* round_number is not incremented beyond this.
MaxRound == 2

\* ------------------------------------------------------------- constants
None == "None"

LOBBY == "lobby"
DAY == "day"
NIGHT == "night"
VOTING == "voting"
ENDED == "ended"
GamePhase == {LOBBY, DAY, NIGHT, VOTING, ENDED}

VILLAGER == "villager"
WEREWOLF == "werewolf"
SEER == "seer"
DOCTOR == "doctor"
Role == {VILLAGER, WEREWOLF, SEER, DOCTOR}

TOWN == "town"
MAFIA == "mafia"

ROLE_TEAMS(role) == IF role = WEREWOLF THEN MAFIA ELSE TOWN

PHASE_DURATIONS(ph) == IF ph \in {DAY, VOTING, NIGHT} THEN 10 ELSE 0

\* The socket ids that take part.  The room was created and they joined in
\* this order, so the first one is the host (manager.py:25).
Sids == {"p1", "p2", "p3", "p4", "p5", "p6"}
Lobby3 == <<"p1", "p2", "p3">>
Lobby4 == <<"p1", "p2", "p3", "p4">>
Lobby6 == <<"p1", "p2", "p3", "p4", "p5", "p6">>

VARIABLES
    messages,        \* GameState.messages: the chat log, the sender of each entry
    games,           \* game_manager.games, the other rooms: room id -> roster
    exists,          \* room_id in game_manager.games
    players,         \* GameState.players: the dict as a sequence of records
    phase,           \* GameState.phase
    round_number,    \* GameState.round_number
    phase_ends_at,   \* GameState.phase_ends_at: None or a deadline
    phase_duration,  \* GameState.phase_duration
    votes,           \* GameState.votes: voter -> target
    werewolf_votes,  \* GameState.werewolf_votes: wolf -> target
    seer_target,     \* GameState.seer_target
    doctor_target,   \* GameState.doctor_target
    tasks,           \* the asyncio tasks (a bag): where each is suspended,
                     \* its locals, whether PhaseController.phase_tasks holds it
    env,             \* the requests the clients may still send
    hist             \* history of the run, read by the properties only

vars == <<messages, games, exists, players, phase, round_number, phase_ends_at, phase_duration,
          votes, werewolf_votes, seer_target, doctor_target, tasks, env, hist>>

room == <<messages, games, exists, players, phase, round_number, phase_ends_at, phase_duration,
          votes, werewolf_votes, seer_target, doctor_target>>

\* ------------------------------------------------------------ the roster
\* The room the model follows, created first, and the other room ids.
MAIN == "r1"

OtherRooms == {"r2"}

\* The room ids in the order game_manager.games holds them.
RoomOrder == <<"r1", "r2">>

NoOtherRooms == [r \in {} |-> <<>>]

\* The sids that call the manager in SpecManager.
Clients == {"p1", "p2", "p3"}

\* The sids that join the room of the four players in SpecJoin: two that
\* are in it already and a new one.
Joiners == {"p1", "p4", "p5"}

Player(id, host) ==
    [id |-> id, is_alive |-> TRUE, is_host |-> host, role |-> None, team |-> None]

Ids(ps) == {ps[i].id : i \in DOMAIN ps}

Get(ps, id) == ps[CHOOSE i \in DOMAIN ps : ps[i].id = id]

InRosterAlive(ps, id) == id \in Ids(ps) /\ Get(ps, id).is_alive

IsHost(ps, sid) == sid \in Ids(ps) /\ Get(ps, sid).is_host

Kill(ps, id) ==
    [i \in DOMAIN ps |-> IF ps[i].id = id THEN [ps[i] EXCEPT !.is_alive = FALSE] ELSE ps[i]]

\* ------------------------------------------------------- role assignment
Repeat(x, n) == [i \in 1 .. n |-> x]

\* get_role_distribution with the seer dealt from five players on.
get_role_distribution_late_seer(n) ==
    IF n <= 4 THEN <<WEREWOLF>> \o Repeat(VILLAGER, n - 1)
    ELSE IF n <= 5 THEN <<WEREWOLF, SEER>> \o Repeat(VILLAGER, n - 2)
    ELSE <<WEREWOLF, WEREWOLF, SEER, DOCTOR>> \o Repeat(VILLAGER, n - 4)

get_role_distribution(n) ==
    IF n <= 3 THEN <<WEREWOLF>> \o Repeat(VILLAGER, n - 1)
    ELSE IF n <= 5 THEN <<WEREWOLF, SEER>> \o Repeat(VILLAGER, n - 2)
    ELSE <<WEREWOLF, WEREWOLF, SEER, DOCTOR>> \o Repeat(VILLAGER, n - 4)

Count(s, x) == Cardinality({i \in DOMAIN s : s[i] = x})

\* random.shuffle: every arrangement of the list.
Shuffles(roles) ==
    {s \in [DOMAIN roles -> Role] : \A r \in Role : Count(s, r) = Count(roles, r)}

\* get_players_by_role (ids).
get_players_by_role(ps, role) == {ps[i].id : i \in {j \in DOMAIN ps : ps[j].role = role}}

\* assign_roles that puts every player in team TOWN.
assign_roles_town(ps, shuffled) ==
    [i \in DOMAIN ps |-> [ps[i] EXCEPT !.role = shuffled[i], !.team = TOWN]]

\* assign_roles for one outcome of the shuffle.
assign_roles(ps, shuffled) ==
    [i \in DOMAIN ps |->
        [ps[i] EXCEPT !.role = shuffled[i], !.team = ROLE_TEAMS(shuffled[i])]]

\* --------------------------------------------------------- win condition
get_alive_werewolves(ps) ==
    {i \in DOMAIN ps : ps[i].is_alive /\ ps[i].role = WEREWOLF}

get_alive_town(ps) ==
    {i \in DOMAIN ps : ps[i].is_alive /\ ps[i].team = TOWN}

check_town_wins(ps) == Cardinality(get_alive_werewolves(ps)) = 0

check_mafia_wins(ps) ==
    Cardinality(get_alive_werewolves(ps)) >= Cardinality(get_alive_town(ps))

\* check_win_condition with the two tests in the other order.
check_win_condition_mafia_first(ps) ==
    IF check_mafia_wins(ps) THEN MAFIA
    ELSE IF check_town_wins(ps) THEN TOWN
    ELSE None

check_win_condition(ps) ==
    IF check_town_wins(ps) THEN TOWN
    ELSE IF check_mafia_wins(ps) THEN MAFIA
    ELSE None

\* ---------------------------------------------------------------- tallies
EmptyTally == << >>

Targets(tally) == {tally[v] : v \in DOMAIN tally}

get_vote_counts(tally) ==
    [t \in Targets(tally) |-> Cardinality({v \in DOMAIN tally : tally[v] = t})]

MaxCount(counts) ==
    CHOOSE m \in {counts[t] : t \in DOMAIN counts} :
        \A t \in DOMAIN counts : counts[t] <= m

\* get_elimination_target returning targets_with_max[0] on a tie too.
get_elimination_target_first(tally) ==
    LET counts == get_vote_counts(tally)
    IN  IF DOMAIN counts = {} THEN None
        ELSE CHOOSE t \in DOMAIN counts : counts[t] = MaxCount(counts)

get_elimination_target(tally) ==
    LET counts == get_vote_counts(tally)
    IN  IF DOMAIN counts = {} THEN None
        ELSE LET targets_with_max ==
                     {t \in DOMAIN counts : counts[t] = MaxCount(counts)}
             IN  IF Cardinality(targets_with_max) > 1 THEN None
                 ELSE CHOOSE t \in targets_with_max : TRUE

get_werewolf_kill_target(tally) ==
    IF DOMAIN tally = {} THEN None
    ELSE LET counts == [t \in Targets(tally) |->
                           Cardinality({w \in DOMAIN tally : tally[w] = t})]
             targets_with_max ==
                 {t \in DOMAIN counts : counts[t] = MaxCount(counts)}
         IN  IF Cardinality(targets_with_max) > 1 THEN None
             ELSE CHOOSE t \in targets_with_max : TRUE

\* A clear_votes that leaves the tally as it is.
keep_votes(tally) == tally

\* GameState.clear_votes, and clear_night_actions for the werewolf tally.
clear_votes(tally) == EmptyTally

Put(tally, k, v) == [x \in DOMAIN tally \cup {k} |-> IF x = k THEN v ELSE tally[x]]

\* ---------------------------------------------------------- notifications
\* The payloads of sio.emit, with their addressee: a socket id, or the room.
ROOM == "room"

NoMessage == [event |-> None]

NoPlayer == [id |-> None, role |-> None, team |-> None]

\* A game_started that carries the werewolf list whatever the role.
GameStartedWithList(ps, i, werewolf_ids) ==
    [event |-> "game_started", to |-> ps[i].id, role |-> ps[i].role,
     team |-> ps[i].team, werewolf_ids |-> werewolf_ids]

\* game_started to the i-th player; the key werewolf_ids is present for a
\* werewolf only ({} stands for its absence).
GameStarted(ps, i, werewolf_ids) ==
    [event |-> "game_started", to |-> ps[i].id, role |-> ps[i].role,
     team |-> ps[i].team,
     werewolf_ids |-> IF ps[i].role = WEREWOLF THEN werewolf_ids ELSE {}]

\* phase_changed built before the round counter was incremented.
PhaseChangedPrevRound(ph, ends_at, rn) ==
    [event |-> "phase_changed", to |-> ROOM, phase |-> ph,
     duration |-> PHASE_DURATIONS(ph), ends_at |-> ends_at,
     round_number |-> IF ph = DAY THEN rn - 1 ELSE rn]

PhaseChanged(ph, ends_at, rn) ==
    [event |-> "phase_changed", to |-> ROOM, phase |-> ph,
     duration |-> PHASE_DURATIONS(ph), ends_at |-> ends_at, round_number |-> rn]

\* player_eliminated; target is the eliminated player, or NoPlayer.
PlayerEliminated(target) ==
    [event |-> "player_eliminated", to |-> ROOM,
     eliminated |-> [id |-> target.id, role |-> target.role, team |-> target.team]]

SeerResult(seer, target) ==
    [event |-> "seer_result", to |-> seer.id, target_id |-> target.id,
     role |-> target.role]

NightResult(deaths) == [event |-> "night_result", to |-> ROOM, deaths |-> deaths]

GameEnded(winner, ps) ==
    [event |-> "game_ended", to |-> ROOM, winner |-> winner,
     players |-> {[id |-> ps[i].id, role |-> ps[i].role, team |-> ps[i].team,
                   is_alive |-> ps[i].is_alive] : i \in DOMAIN ps}]

\* ------------------------------------------------------------------ tasks
\* A task is a handler call (start, skip) or a timer (transition_after_delay).
\* pc names the await at which it is suspended; ph is the phase argument of
\* the transition_to it is in and, for a timer, of the transition_to that
\* scheduled it; next_phase, protected_id, kill_target_id are the locals of
\* those names and idx is the position of the role-delivery loop.
\* werewolf_ids is the local of start_game, di_used the roster size the
\* iterator of its loop remembers, and msg is the notification the task is
\* emitting at its await.  actor and valid_targets belong to a scheduled AI
\* task: the AI player it acts for and the targets offered to its decision.
\* reg: PhaseController.phase_tasks[room_id] is this task.  skipped is
\* history: the task is the timer, or will schedule the timer, of a DAY
\* that a host skip has ended.
Task(kind, pc) ==
    [kind |-> kind, pc |-> pc, ph |-> None, next_phase |-> None,
     protected_id |-> None, kill_target_id |-> None, idx |-> 0,
     werewolf_ids |-> {}, di_used |-> 0, msg |-> NoMessage,
     actor |-> None, valid_targets |-> {},
     reg |-> FALSE, skipped |-> FALSE]

Running == BagToSet(tasks)

With(b, r) == b (+) SetToBag({r})

Without(b, r) == b (-) SetToBag({r})

Copies(b, R) ==
    LET f[T \in SUBSET R] ==
            IF T = {} THEN 0
            ELSE LET x == CHOOSE x \in T : TRUE IN CopiesIn(x, b) + f[T \ {x}]
    IN  f[R]

\* The bag b with each of its tasks r replaced by f[r].
Image(b, f) ==
    [y \in {f[r] : r \in BagToSet(b)} |->
        Copies(b, {r \in BagToSet(b) : f[r] = y})]

Timers(b) == {r \in BagToSet(b) : r.kind = "timer"}

LiveTimers(b) == Copies(b, Timers(b))

\* del self.phase_tasks[room_id]: no task is registered any more.
Unregister(b) == Image(b, [r \in BagToSet(b) |-> [r EXCEPT !.reg = FALSE]])

\* self.phase_tasks[room_id].cancel(); del self.phase_tasks[room_id].  The
\* registered task is asleep (a timer removes the entry when it wakes), so
\* CancelledError is raised at its sleep and caught (phase.py:155): it ends.
CancelPending(b) == [r \in {x \in BagToSet(b) : ~x.reg} |-> b[r]]

\* AIController._cancel_action_tasks: every scheduled AI task that is not
\* done is in action_tasks[room_id]; cancelled at its await, it ends.
_cancel_action_tasks(b) ==
    [r \in {x \in BagToSet(b) : x.kind \notin {"ai_vote", "ai_action"}} |-> b[r]]

\* The tasks _schedule_ai_votes / _schedule_ai_night_actions create: one per
\* AI player that is in the roster and alive and, at night, not a villager.
\* (The role an AI player caches at on_game_start is its role in the roster:
\* roles are dealt once where AI players are modelled.)
ScheduledFor(ps, ai, ph) ==
    {[Task(IF ph = VOTING THEN "ai_vote" ELSE "ai_action", "ai_sleep")
          EXCEPT !.actor = id, !.ph = ph] :
        id \in {x \in ai \cap Ids(ps) :
                   /\ Get(ps, x).is_alive
                   /\ ph = NIGHT => Get(ps, x).role # VILLAGER}}

\* AIController._stop_chat_loop: the chat task of the room, if it is not
\* done, is cancelled at its await and ends (controller.py:275-276).
_stop_chat_loop(b) == [r \in {x \in BagToSet(b) : x.kind # "chat"} |-> b[r]]

\* AIController.on_phase_change, for a room with AI players: entering DAY
\* replaces the chat loop by a new one; entering VOTING stops it; entering
\* VOTING or NIGHT cancels the pending action tasks and schedules new ones
\* (the ENDED branch is not reached: _check_and_end_game does not call it).
on_phase_change(b, ps, ai, ph) ==
    IF ai = {} THEN b
    ELSE CASE ph = DAY -> With(_stop_chat_loop(b), Task("chat", "chat_sleep"))
           [] ph = VOTING -> _cancel_action_tasks(_stop_chat_loop(b))
                                 (+) SetToBag(ScheduledFor(ps, ai, ph))
           [] ph = NIGHT -> _cancel_action_tasks(b) (+) SetToBag(ScheduledFor(ps, ai, ph))
           [] OTHER -> b

_get_next_phase(current) ==
    CASE current = DAY -> VOTING
      [] current = VOTING -> NIGHT
      [] current = NIGHT -> DAY
      [] OTHER -> ENDED

Deadline(duration) == IF duration > 0 THEN "now+duration" ELSE None

NoteEntry(h, ph) == [h EXCEPT !.day_entries = IF ph = DAY THEN @ + 1 ELSE @]

\* History: the timer r woke up and goes on to act.
NoteFire(h, r) == [h EXCEPT !.stale_fire = @ \/ r.skipped]

\* transition_to up to its first await (phase.py:70-106), run by the task
\* that becomes r; others are the other tasks, h the history so far.  The
\* room exists.
transition_to(r, ph, others, h) ==
    /\ votes' = IF ph = VOTING THEN clear_votes(votes) ELSE votes
    /\ werewolf_votes' = IF ph = NIGHT THEN clear_votes(werewolf_votes)
                         ELSE werewolf_votes
    /\ seer_target' = IF ph = NIGHT THEN None ELSE seer_target
    /\ doctor_target' = IF ph = NIGHT THEN None ELSE doctor_target
    /\ phase' = ph
    /\ phase_duration' = PHASE_DURATIONS(ph)
    /\ phase_ends_at' = Deadline(PHASE_DURATIONS(ph))
    /\ tasks' = With(Unregister(others),
                     [r EXCEPT !.pc = "tt_emit", !.ph = ph, !.reg = FALSE,
                               !.skipped = FALSE, !.next_phase = None,
                               !.protected_id = None, !.kill_target_id = None,
                               !.idx = 0, !.werewolf_ids = {}, !.di_used = 0,
                               !.msg = PhaseChanged(ph, Deadline(PHASE_DURATIONS(ph)),
                                                    round_number')])
    /\ hist' = NoteEntry(h, ph)

\* ------------------------------------------------------------------- Init
InitRoom(lobby, starts, skips, nvotes, nactions, nfails, nleaves, ai) ==
    /\ exists = TRUE
    /\ games = NoOtherRooms
    /\ messages = <<>>
    /\ players = [i \in DOMAIN lobby |-> Player(lobby[i], i = 1)]
    /\ phase = LOBBY
    /\ round_number = 0
    /\ phase_ends_at = None
    /\ phase_duration = 0
    /\ votes = EmptyTally
    /\ werewolf_votes = EmptyTally
    /\ seer_target = None
    /\ doctor_target = None
    /\ tasks = EmptyBag
    /\ env = [starts |-> starts, skips |-> skips, votes |-> nvotes,
              actions |-> nactions, fails |-> nfails, leaves |-> nleaves,
              ai |-> ai]
    /\ hist = [assigns |-> 0, start_ok |-> 0, day_entries |-> 0,
               stale_fire |-> FALSE]

\* Three players in the lobby; start_game and skip_to_voting requests, day
\* votes.
Init == InitRoom(Lobby3, MaxStarts, MaxSkips, MaxVotes, 0, 0, 0, {})

\* Four players (so a seer is dealt), one start_game, night actions only.
InitNight == InitRoom(Lobby4, 1, 0, 0, MaxActions, 0, 0, {})

\* Four players, one start_game, day votes and night actions.
InitGame == InitRoom(Lobby4, 1, 0, MaxBallots, MaxBallots, 0, 0, {})

\* The same, and emits may raise.
InitFail == InitRoom(Lobby4, 1, 0, 0, MaxActions, MaxFails, 0, {})

\* The four-player lobby: two start_game requests and two night_action
\* requests.
InitSeer == InitRoom(Lobby4, MaxStarts, 0, 0, MaxBallots, 0, 0, {})

\* A deal of get_role_distribution(6): two werewolves, a seer, a doctor and
\* two villagers.
Deal6 == <<WEREWOLF, VILLAGER, DOCTOR, WEREWOLF, SEER, VILLAGER>>

\* The six-player room when start_game has returned with the deal Deal6:
\* the first DAY, its timer asleep.  Night actions, and a player may leave.
InitDoctor ==
    /\ exists = TRUE
    /\ games = NoOtherRooms
    /\ messages = <<>>
    /\ players = assign_roles([i \in DOMAIN Lobby6 |-> Player(Lobby6[i], i = 1)],
                              Deal6)
    /\ phase = DAY
    /\ round_number = 1
    /\ phase_ends_at = Deadline(PHASE_DURATIONS(DAY))
    /\ phase_duration = PHASE_DURATIONS(DAY)
    /\ votes = EmptyTally
    /\ werewolf_votes = EmptyTally
    /\ seer_target = None
    /\ doctor_target = None
    /\ tasks = SetToBag({[Task("timer", "sleep") EXCEPT !.reg = TRUE, !.ph = DAY]})
    /\ env = [starts |-> 0, skips |-> 0, votes |-> 0, actions |-> MaxActions,
              fails |-> 0, leaves |-> MaxLeaves, ai |-> {}]
    /\ hist = [assigns |-> 1, start_ok |-> 1, day_entries |-> 1,
               stale_fire |-> FALSE]

\* The AI player of the six-player room (an LLM player): the seer of Deal6.
AiSeer == {"p5"}

\* The sids that send join_room to the started room: a werewolf of the
\* roster and a newcomer.
Rejoiners == {"p1", "p7"}

\* The six-player room, p5 an AI player, when start_game has returned with
\* the deal Deal6: the first DAY, its timer asleep.  The clients send one
\* night_action and one join_room.
InitRoute ==
    /\ exists = TRUE
    /\ games = NoOtherRooms
    /\ messages = <<>>
    /\ players = assign_roles([i \in DOMAIN Lobby6 |-> Player(Lobby6[i], i = 1)],
                              Deal6)
    /\ phase = DAY
    /\ round_number = 1
    /\ phase_ends_at = Deadline(PHASE_DURATIONS(DAY))
    /\ phase_duration = PHASE_DURATIONS(DAY)
    /\ votes = EmptyTally
    /\ werewolf_votes = EmptyTally
    /\ seer_target = None
    /\ doctor_target = None
    /\ tasks = SetToBag({[Task("timer", "sleep") EXCEPT !.reg = TRUE, !.ph = DAY],
                          Task("chat", "chat_sleep")})
    /\ env = [starts |-> 0, skips |-> 0, votes |-> 0, actions |-> MaxVotes,
              fails |-> 0, leaves |-> 0, joins |-> MaxRejoins, ai |-> AiSeer]
    /\ hist = [assigns |-> 1, start_ok |-> 1, day_entries |-> 1,
               stale_fire |-> FALSE]

\* A deal of get_role_distribution(4).
Deal4 == <<WEREWOLF, SEER, VILLAGER, VILLAGER>>

\* The AI players of the room (LLM players), added in the lobby.
AiIds == {"p2", "p3"}

\* The four-player room, p2 and p3 AI players, when start_game has returned
\* with the deal Deal4: the first DAY, its timer asleep.  The humans send
\* one submit_vote and one night_action.
InitAI ==
    /\ exists = TRUE
    /\ games = NoOtherRooms
    /\ messages = <<>>
    /\ players = assign_roles([i \in DOMAIN Lobby4 |-> Player(Lobby4[i], i = 1)],
                              Deal4)
    /\ phase = DAY
    /\ round_number = 1
    /\ phase_ends_at = Deadline(PHASE_DURATIONS(DAY))
    /\ phase_duration = PHASE_DURATIONS(DAY)
    /\ votes = EmptyTally
    /\ werewolf_votes = EmptyTally
    /\ seer_target = None
    /\ doctor_target = None
    /\ tasks = SetToBag({[Task("timer", "sleep") EXCEPT !.reg = TRUE, !.ph = DAY],
                          Task("chat", "chat_sleep")})
    /\ env = [starts |-> 0, skips |-> 0, votes |-> MaxVotes, actions |-> MaxVotes,
              fails |-> 0, leaves |-> 0, ai |-> AiIds]
    /\ hist = [assigns |-> 1, start_ok |-> 1, day_entries |-> 1,
               stale_fire |-> FALSE]

\* The tallies of up to MaxVoters voters over the same players.
Tallies ==
    LET voters == {Lobby6[i] : i \in 1 .. MaxVoters}
    IN  UNION {[S -> voters] : S \in SUBSET voters}

\* A GameState for the plurality functions: any day tally, any werewolf
\* tally.
InitTally ==
    /\ exists = TRUE
    /\ games = NoOtherRooms
    /\ messages = <<>>
    /\ players = [i \in DOMAIN Lobby3 |-> Player(Lobby3[i], i = 1)]
    /\ phase = LOBBY
    /\ round_number = 0
    /\ phase_ends_at = None
    /\ phase_duration = 0
    /\ votes \in Tallies
    /\ werewolf_votes \in Tallies
    /\ seer_target = None
    /\ doctor_target = None
    /\ tasks = EmptyBag
    /\ env = [starts |-> 0, skips |-> 0, votes |-> 0, actions |-> 0,
              fails |-> 0, leaves |-> 0, ai |-> {}, calls |-> 1]
    /\ hist = [assigns |-> 0, start_ok |-> 0, day_entries |-> 0,
               stale_fire |-> FALSE, call |-> [op |-> None]]

\* A GameState for the role functions: a roster of any size up to
\* MaxRoster, any of the players dead, no role dealt yet.
InitRoles ==
    /\ exists = TRUE
    /\ games = NoOtherRooms
    /\ messages = <<>>
    /\ \E n \in 0 .. MaxRoster :
           \E alive \in [1 .. n -> BOOLEAN] :
               players = [i \in 1 .. n |->
                             [Player(Lobby6[i], i = 1) EXCEPT !.is_alive = alive[i]]]
    /\ phase = LOBBY
    /\ round_number = 0
    /\ phase_ends_at = None
    /\ phase_duration = 0
    /\ votes = EmptyTally
    /\ werewolf_votes = EmptyTally
    /\ seer_target = None
    /\ doctor_target = None
    /\ tasks = EmptyBag
    /\ env = [starts |-> 0, skips |-> 0, votes |-> 0, actions |-> 0,
              fails |-> 0, leaves |-> 0, ai |-> {}, calls |-> 1,
              deals |-> MaxDeals]
    /\ hist = [assigns |-> 0, start_ok |-> 0, day_entries |-> 0,
               stale_fire |-> FALSE, call |-> [op |-> None]]

\* Four players in the lobby, one start_game, and clients that join the
\* room before, during and after it.
InitJoin ==
    /\ games = NoOtherRooms
    /\ messages = <<>>
    /\ exists = TRUE
    /\ players = [i \in DOMAIN Lobby4 |-> Player(Lobby4[i], i = 1)]
    /\ phase = LOBBY
    /\ round_number = 0
    /\ phase_ends_at = None
    /\ phase_duration = 0
    /\ votes = EmptyTally
    /\ werewolf_votes = EmptyTally
    /\ seer_target = None
    /\ doctor_target = None
    /\ tasks = EmptyBag
    /\ env = [starts |-> 1, skips |-> 0, votes |-> 0, actions |-> 0,
              fails |-> 0, leaves |-> 0, ai |-> {}, calls |-> MaxJoins]
    /\ hist = [assigns |-> 0, start_ok |-> 0, day_entries |-> 0,
               stale_fire |-> FALSE, call |-> [op |-> None]]

\* A manager with one room just created and nobody in it.
InitManager ==
    /\ games = NoOtherRooms
    /\ messages = <<>>
    /\ exists = TRUE
    /\ players = <<>>
    /\ phase = LOBBY
    /\ round_number = 0
    /\ phase_ends_at = None
    /\ phase_duration = 0
    /\ votes = EmptyTally
    /\ werewolf_votes = EmptyTally
    /\ seer_target = None
    /\ doctor_target = None
    /\ tasks = EmptyBag
    /\ env = [starts |-> 0, skips |-> 0, votes |-> 0, actions |-> 0,
              fails |-> 0, leaves |-> 0, ai |-> {}, calls |-> MaxOps]
    /\ hist = [assigns |-> 0, start_ok |-> 0, day_entries |-> 0,
               stale_fire |-> FALSE, call |-> [op |-> None]]

\* A GameState for the submit methods: p1, p2, p3 in the roster (p4 is not),
\* any of them dead, roles dealt or not, empty tallies, any phase of a game.
InitSubmit ==
    /\ exists = TRUE
    /\ games = NoOtherRooms
    /\ messages = <<>>
    /\ \E alive \in [DOMAIN Lobby3 -> BOOLEAN],
          dealt \in BOOLEAN,
          shuffled \in Shuffles(get_role_distribution(Len(Lobby3))) :
           LET ps == [i \in DOMAIN Lobby3 |->
                         [Player(Lobby3[i], i = 1) EXCEPT !.is_alive = alive[i]]]
           IN  players = IF dealt THEN assign_roles(ps, shuffled) ELSE ps
    /\ phase \in {DAY, VOTING, NIGHT}
    /\ round_number = 1
    /\ phase_ends_at = Deadline(PHASE_DURATIONS(phase))
    /\ phase_duration = PHASE_DURATIONS(phase)
    /\ votes = EmptyTally
    /\ werewolf_votes = EmptyTally
    /\ seer_target = None
    /\ doctor_target = None
    /\ tasks = EmptyBag
    /\ env = [starts |-> 0, skips |-> 0, votes |-> 0, actions |-> 0,
              fails |-> 0, leaves |-> 0, ai |-> {}, calls |-> MaxCalls]
    /\ hist = [assigns |-> 0, start_ok |-> 0, day_entries |-> 0,
               stale_fire |-> FALSE, call |-> [op |-> None]]

\* Three players, one start_game, day votes, and a player may leave.
InitLeave == InitRoom(Lobby3, 1, 0, MaxBallots, 0, 0, MaxLeaves, {})

\* Three players, one start_game, and every player may leave.
InitGone == InitRoom(Lobby3, 1, 0, MaxBallots, 0, 0, MaxDepartures, {})

\* Three players in the lobby; any client, in the room or not, may ask for
\* the start and for the skip.
InitAsk ==
    /\ games = NoOtherRooms
    /\ messages = <<>>
    /\ exists = TRUE
    /\ players = [i \in DOMAIN Lobby3 |-> Player(Lobby3[i], i = 1)]
    /\ phase = LOBBY
    /\ round_number = 0
    /\ phase_ends_at = None
    /\ phase_duration = 0
    /\ votes = EmptyTally
    /\ werewolf_votes = EmptyTally
    /\ seer_target = None
    /\ doctor_target = None
    /\ tasks = EmptyBag
    /\ env = [starts |-> 0, skips |-> 0, votes |-> 0, actions |-> 0,
              fails |-> 0, leaves |-> 0, ai |-> {}, calls |-> MaxAsks]
    /\ hist = [assigns |-> 0, start_ok |-> 0, day_entries |-> 0,
               stale_fire |-> FALSE, call |-> [op |-> None]]

\* Three players in the lobby, p2 an AI player (an LLM player); the host
\* may send start_game twice, and the humans chat.
InitChat ==
    /\ games = NoOtherRooms
    /\ messages = <<>>
    /\ exists = TRUE
    /\ players = [i \in DOMAIN Lobby3 |-> Player(Lobby3[i], i = 1)]
    /\ phase = LOBBY
    /\ round_number = 0
    /\ phase_ends_at = None
    /\ phase_duration = 0
    /\ votes = EmptyTally
    /\ werewolf_votes = EmptyTally
    /\ seer_target = None
    /\ doctor_target = None
    /\ tasks = EmptyBag
    /\ env = [starts |-> MaxStarts, skips |-> 0, votes |-> 0, actions |-> 0,
              fails |-> 0, leaves |-> 0, ai |-> {"p2"}, calls |-> MaxChats]
    /\ hist = [assigns |-> 0, start_ok |-> 0, day_entries |-> 0,
               stale_fire |-> FALSE, call |-> [op |-> None]]

\* ------------------------------------------------------------- start_game
\* The checks without the one of the phase.
CanStartInAnyPhase(sid) ==
    /\ exists
    /\ IsHost(players, sid)

\* The checks of events.start_game (the caller is in the room and is its
\* host, events.py:112-124) and of PhaseController.start_game (phase.py:33-38).
CanStart(sid) ==
    /\ exists
    /\ IsHost(players, sid)
    /\ phase = LOBBY

\* events.start_game and PhaseController.start_game up to the first
\* game_started emit: the checks, assign_roles and the first loop iteration.
\* e, h: the requests left and the history after it.
start_game(sid, e, h) ==
    /\ CanStart(sid)
    /\ \E shuffled \in Shuffles(get_role_distribution(Len(players))) :
           players' = assign_roles(players, shuffled)
    /\ LET werewolf_ids == get_players_by_role(players', WEREWOLF)
       IN  tasks' = With(tasks, [Task("start", "sg_roles") EXCEPT
                                    !.idx = 1, !.werewolf_ids = werewolf_ids,
                                    !.di_used = Len(players),
                                    !.msg = GameStarted(players', 1, werewolf_ids)])
    /\ env' = e
    /\ hist' = [h EXCEPT !.assigns = @ + 1]
    /\ UNCHANGED <<messages, games, exists, phase, round_number, phase_ends_at, phase_duration,
                   votes, werewolf_votes, seer_target, doctor_target>>

\* A start_game request of the clients' budget.
StartGame(sid) ==
    /\ env.starts > 0
    /\ start_game(sid, [env EXCEPT !.starts = @ - 1], hist)

\* A check fails: the handler answers success False (after an error emit).
StartGameRefused(sid) ==
    /\ env.starts > 0
    /\ ~CanStart(sid)
    /\ env' = [env EXCEPT !.starts = @ - 1]
    /\ UNCHANGED <<room, tasks, hist>>

\* The emit to players[idx] returned and the roster has another size than
\* when the loop began: the dict iterator raises RuntimeError, which leaves
\* start_game and the handler.
StartRosterChanged(r) ==
    /\ r.pc = "sg_roles"
    /\ r.di_used # Len(players)
    /\ tasks' = Without(tasks, r)
    /\ UNCHANGED <<room, env, hist>>

\* The emit to players[idx] returned and the loop has a next player.
StartNextRole(r) ==
    /\ r.pc = "sg_roles"
    /\ r.di_used = Len(players)
    /\ r.idx < Len(players)
    /\ players[r.idx + 1].role # None
    /\ tasks' = With(Without(tasks, r),
                     [r EXCEPT !.idx = @ + 1,
                               !.msg = GameStarted(players, r.idx + 1, r.werewolf_ids)])
    /\ UNCHANGED <<room, env, hist>>

\* The emit to players[idx] returned and the next player has joined again
\* since the roles were dealt: player.role is None and player.role.value
\* raises AttributeError (phase.py:50), which leaves start_game and the
\* handler.
StartRoleMissing(r) ==
    /\ r.pc = "sg_roles"
    /\ r.di_used = Len(players)
    /\ r.idx < Len(players)
    /\ players[r.idx + 1].role = None
    /\ tasks' = Without(tasks, r)
    /\ UNCHANGED <<room, env, hist>>

\* The last emit returned: on_game_start, round_number = 1 and
\* transition_to(DAY) up to its emit (phase.py:60-65).
StartEnterDay(r) ==
    /\ r.pc = "sg_roles"
    /\ r.di_used = Len(players)
    /\ r.idx = Len(players)
    /\ round_number' = 1
    /\ transition_to(r, DAY, Without(tasks, r), hist)
    /\ UNCHANGED <<messages, games, exists, players, env>>

\* ---------------------------------------------------------- transition_to
\* The phase_changed emit returned: on_phase_change, then
\* _schedule_next_phase (phase.py:108-114, 160-161) and the return to the
\* caller, which ends the calling task.
TransitionResume(r) ==
    /\ r.pc = "tt_emit"
    /\ tasks' = IF PHASE_DURATIONS(r.ph) > 0
                THEN With(Unregister(on_phase_change(Without(tasks, r), players,
                                                     env.ai, r.ph)),
                          [Task("timer", "sleep") EXCEPT !.reg = TRUE,
                               !.ph = r.ph, !.skipped = r.skipped])
                ELSE on_phase_change(Without(tasks, r), players, env.ai, r.ph)
    /\ hist' = IF r.kind = "start" THEN [hist EXCEPT !.start_ok = @ + 1] ELSE hist
    /\ UNCHANGED <<room, env>>

\* --------------------------------------------------------- skip_to_voting
\* skip_to_voting without the check that the caller is the host.
CanSkipAnyone(sid) ==
    /\ exists
    /\ sid \in Ids(players)
    /\ phase = DAY

\* The checks of events.skip_to_voting (events.py:135-145) and of
\* PhaseController.skip_to_voting (phase.py:330-335).
CanSkip(sid) ==
    /\ exists
    /\ IsHost(players, sid)
    /\ phase = DAY

\* History: the tasks of b that are, or will schedule, the timer of a DAY
\* are marked as belonging to a DAY that was skipped.
NoteSkip(b) ==
    Image(b, [r \in BagToSet(b) |->
                 IF r.ph = DAY /\ r.pc \in {"tt_emit", "sleep"}
                 THEN [r EXCEPT !.skipped = TRUE] ELSE r])

\* events.skip_to_voting and PhaseController.skip_to_voting up to the emit
\* inside transition_to(VOTING).
\* e, h: the requests left and the history after it.
skip_to_voting(sid, e, h) ==
    /\ CanSkip(sid)
    /\ UNCHANGED <<messages, games, exists, players, round_number>>
    /\ transition_to(Task("skip", "call"), VOTING, NoteSkip(CancelPending(tasks)), h)
    /\ env' = e

\* A skip_to_voting request of the clients' budget.
SkipToVoting(sid) ==
    /\ env.skips > 0
    /\ skip_to_voting(sid, [env EXCEPT !.skips = @ - 1], hist)

\* A check fails: the handler answers success False.
SkipRefused(sid) ==
    /\ env.skips > 0
    /\ ~CanSkip(sid)
    /\ env' = [env EXCEPT !.skips = @ - 1]
    /\ UNCHANGED <<room, tasks, hist>>

\* History: the handler op, called by sid, passed its checks (ok) or
\* answered success False at once.
Request(op, sid, ok) == [op |-> op, sid |-> sid, ok |-> ok]

\* events.start_game called by sid, the caller recorded.
CallStartGame(sid) ==
    /\ env.calls > 0
    /\ start_game(sid, [env EXCEPT !.calls = @ - 1],
                  [hist EXCEPT !.call = Request("start_game", sid, TRUE)])

\* events.start_game called by sid: a check fails.
CallStartGameRefused(sid) ==
    /\ env.calls > 0
    /\ ~CanStart(sid)
    /\ env' = [env EXCEPT !.calls = @ - 1]
    /\ hist' = [hist EXCEPT !.call = Request("start_game", sid, FALSE)]
    /\ UNCHANGED <<room, tasks>>

\* events.skip_to_voting called by sid, the caller recorded.
CallSkipToVoting(sid) ==
    /\ env.calls > 0
    /\ skip_to_voting(sid, [env EXCEPT !.calls = @ - 1],
                      [hist EXCEPT !.call = Request("skip_to_voting", sid, TRUE)])

\* events.skip_to_voting called by sid: a check fails.
CallSkipRefused(sid) ==
    /\ env.calls > 0
    /\ ~CanSkip(sid)
    /\ env' = [env EXCEPT !.calls = @ - 1]
    /\ hist' = [hist EXCEPT !.call = Request("skip_to_voting", sid, FALSE)]
    /\ UNCHANGED <<room, tasks>>

\* ------------------------------------------------------------- leave_room
\* GameState.remove_player: players.pop(player_id, None).
remove_player(ps, player_id) ==
    LET Stays(p) == p.id # player_id IN SelectSeq(ps, Stays)

\* events.leave_room and GameManager.leave_room: the player is removed from
\* the roster, and the room is deleted when nobody is left; the awaits that
\* follow (sio.leave_room, the player_left emit) change nothing.
LeaveRoom(sid) ==
    /\ env.leaves > 0
    /\ exists
    /\ players' = remove_player(players, sid)
    /\ exists' = (Len(players') # 0)
    /\ env' = [env EXCEPT !.leaves = @ - 1]
    /\ UNCHANGED <<messages, games, phase, round_number, phase_ends_at, phase_duration, votes,
                   werewolf_votes, seer_target, doctor_target, tasks, hist>>

\* ------------------------------------------------------------ GameManager
\* game_manager.games as one dict: room id -> roster.
Registry(ex, ps, gs) ==
    [r \in (IF ex THEN {MAIN} ELSE {}) \cup DOMAIN gs |->
        IF r = MAIN THEN ps ELSE gs[r]]

Drop(reg, room_id) == [r \in DOMAIN reg \ {room_id} |-> reg[r]]

\* GameState.add_player: players[player.id] = player; an id already in the
\* dict keeps its place and gets the new record.
add_player(ps, player) ==
    IF player.id \in Ids(ps)
    THEN [i \in DOMAIN ps |-> IF ps[i].id = player.id THEN player ELSE ps[i]]
    ELSE Append(ps, player)

\* GameManager.join_room: the first player of an empty roster is the host.
join_room(reg, room_id, player_id) ==
    IF room_id \notin DOMAIN reg THEN reg
    ELSE [reg EXCEPT ![room_id] = add_player(@, Player(player_id, Len(@) = 0))]

\* leave_room that keeps a room whose roster became empty.
leave_room_keep(reg, room_id, player_id) ==
    IF room_id \notin DOMAIN reg THEN reg
    ELSE [reg EXCEPT ![room_id] = remove_player(@, player_id)]

\* GameManager.leave_room: the player is removed, the room deleted when
\* its roster is empty.
leave_room(reg, room_id, player_id) ==
    IF room_id \notin DOMAIN reg THEN reg
    ELSE LET ps == remove_player(reg[room_id], player_id)
         IN  IF Len(ps) = 0 THEN Drop(reg, room_id)
             ELSE [reg EXCEPT ![room_id] = ps]

\* GameManager.get_player_room: the first room, in the order of the dict,
\* whose roster holds the player.
get_player_room(reg, player_id) ==
    LET holds == {i \in DOMAIN RoomOrder :
                     /\ RoomOrder[i] \in DOMAIN reg
                     /\ player_id \in Ids(reg[RoomOrder[i]])}
    IN  IF holds = {} THEN None
        ELSE RoomOrder[CHOOSE i \in holds : \A j \in holds : i <= j]

\* disconnect_player returned None.
NoResult == [player_id |-> None, room_id |-> None, new_host_id |-> None]

\* disconnect_player that leaves the host flags alone.
disconnect_player_no_host(reg, player_id) ==
    LET room_id == get_player_room(reg, player_id)
    IN  IF room_id = None THEN [games |-> reg, result |-> NoResult]
        ELSE LET ps == remove_player(reg[room_id], player_id)
                 result == [player_id |-> player_id, room_id |-> room_id,
                            new_host_id |-> None]
             IN  IF Len(ps) = 0
                 THEN [games |-> Drop(reg, room_id), result |-> result]
                 ELSE [games |-> [reg EXCEPT ![room_id] = ps], result |-> result]

\* GameManager.disconnect_player: the player is removed from the room
\* get_player_room finds; the room is deleted when its roster is empty;
\* otherwise, if the player was the host, the first remaining player is
\* made host and the result carries new_host_id (None: the key is absent).
disconnect_player(reg, player_id) ==
    LET room_id == get_player_room(reg, player_id)
    IN  IF room_id = None THEN [games |-> reg, result |-> NoResult]
        ELSE LET was_host == Get(reg[room_id], player_id).is_host
                 ps == remove_player(reg[room_id], player_id)
                 result == [player_id |-> player_id, room_id |-> room_id,
                            new_host_id |-> None]
             IN  IF Len(ps) = 0
                 THEN [games |-> Drop(reg, room_id), result |-> result]
                 ELSE IF was_host
                 THEN [games |-> [reg EXCEPT ![room_id] =
                                     [ps EXCEPT ![1].is_host = TRUE]],
                       result |-> [result EXCEPT !.new_host_id = ps[1].id]]
                 ELSE [games |-> [reg EXCEPT ![room_id] = ps], result |-> result]

\* The dict after a manager call, written back to the variables.
SetGames(reg) ==
    /\ exists' = (MAIN \in DOMAIN reg)
    /\ players' = IF MAIN \in DOMAIN reg THEN reg[MAIN] ELSE <<>>
    /\ games' = Drop(reg, MAIN)

\* History: the manager call op(room_id, sid) returned value.
ManagerCall(op, room_id, sid, value) ==
    [op |-> op, room_id |-> room_id, sid |-> sid, value |-> value]

\* events.create_room and GameManager.create_room: an empty GameState under
\* a new id; the creator is not put in the roster.
CallCreateRoom(room_id) ==
    /\ env.calls > 0
    /\ room_id \notin DOMAIN games
    /\ games' = [r \in DOMAIN games \cup {room_id} |->
                    IF r = room_id THEN <<>> ELSE games[r]]
    /\ hist' = [hist EXCEPT !.call = ManagerCall("create_room", room_id, None, room_id)]
    /\ env' = [env EXCEPT !.calls = @ - 1]
    /\ UNCHANGED <<messages, exists, players, phase, round_number, phase_ends_at,
                   phase_duration, votes, werewolf_votes, seer_target,
                   doctor_target, tasks>>

\* events.join_room and GameManager.join_room: refused when the room does
\* not exist; otherwise the sid is put in the roster of that room.
CallJoinRoom(room_id, sid) ==
    /\ env.calls > 0
    /\ SetGames(join_room(Registry(exists, players, games), room_id, sid))
    /\ hist' = [hist EXCEPT !.call =
                    ManagerCall("join_room", room_id, sid,
                                room_id \in DOMAIN Registry(exists, players, games))]
    /\ env' = [env EXCEPT !.calls = @ - 1]
    /\ UNCHANGED <<messages, phase, round_number, phase_ends_at, phase_duration,
                   votes, werewolf_votes, seer_target, doctor_target, tasks>>

\* GameManager.leave_room(room_id, sid).
CallLeaveRoom(room_id, sid) ==
    /\ env.calls > 0
    /\ SetGames(leave_room(Registry(exists, players, games), room_id, sid))
    /\ hist' = [hist EXCEPT !.call = ManagerCall("leave_room", room_id, sid, None)]
    /\ env' = [env EXCEPT !.calls = @ - 1]
    /\ UNCHANGED <<messages, phase, round_number, phase_ends_at, phase_duration,
                   votes, werewolf_votes, seer_target, doctor_target, tasks>>

\* events.disconnect and GameManager.disconnect_player(sid); the emits that
\* follow change nothing.
CallDisconnectPlayer(sid) ==
    /\ env.calls > 0
    /\ LET done == disconnect_player(Registry(exists, players, games), sid)
       IN  /\ SetGames(done.games)
           /\ hist' = [hist EXCEPT !.call =
                           ManagerCall("disconnect_player", None, sid, done.result)]
    /\ env' = [env EXCEPT !.calls = @ - 1]
    /\ UNCHANGED <<messages, phase, round_number, phase_ends_at, phase_duration,
                   votes, werewolf_votes, seer_target, doctor_target, tasks>>

\* ------------------------------------------------------------ submissions
\* submit_vote without the check that voter and target differ.
submit_vote_self(ps, voter_id, target_id) ==
    /\ voter_id \in Ids(ps) /\ target_id \in Ids(ps)
    /\ Get(ps, voter_id).is_alive /\ Get(ps, target_id).is_alive

\* submit_werewolf_vote without the check of the target's role.
submit_werewolf_vote_any(ps, wolf_id, target_id) ==
    /\ wolf_id \in Ids(ps) /\ target_id \in Ids(ps)
    /\ Get(ps, wolf_id).is_alive /\ Get(ps, target_id).is_alive

\* The submit methods of GameState: the value returned.
submit_vote(ps, voter_id, target_id) ==
    /\ voter_id \in Ids(ps) /\ target_id \in Ids(ps)
    /\ Get(ps, voter_id).is_alive /\ Get(ps, target_id).is_alive
    /\ voter_id # target_id

submit_werewolf_vote(ps, wolf_id, target_id) ==
    /\ wolf_id \in Ids(ps) /\ target_id \in Ids(ps)
    /\ Get(ps, wolf_id).is_alive /\ Get(ps, target_id).is_alive
    /\ Get(ps, target_id).role # WEREWOLF

submit_seer_action(ps, seer_id, target_id) ==
    /\ seer_id \in Ids(ps) /\ target_id \in Ids(ps)
    /\ Get(ps, seer_id).is_alive /\ Get(ps, target_id).is_alive
    /\ seer_id # target_id

\* submit_doctor_action with a check that doctor and target differ.
submit_doctor_action_other(ps, doctor_id, target_id) ==
    /\ doctor_id \in Ids(ps) /\ target_id \in Ids(ps)
    /\ Get(ps, doctor_id).is_alive /\ Get(ps, target_id).is_alive
    /\ doctor_id # target_id

submit_doctor_action(ps, doctor_id, target_id) ==
    /\ doctor_id \in Ids(ps) /\ target_id \in Ids(ps)
    /\ Get(ps, doctor_id).is_alive /\ Get(ps, target_id).is_alive

\* The choice k holds in tally, None if there is none.
Choice(tally, k) == IF k \in DOMAIN tally THEN tally[k] ELSE None

\* History: the call op(actor, target) returned ret; replaced is the choice
\* the actor held before it.
Call(op, actor, target, ret, replaced) ==
    [op |-> op, actor |-> actor, target |-> target, ret |-> ret,
     replaced |-> replaced]

\* GameState.submit_vote(voter_id, target_id), called directly.
CallSubmitVote(voter_id, target_id) ==
    /\ env.calls > 0
    /\ votes' = IF submit_vote(players, voter_id, target_id)
                THEN Put(votes, voter_id, target_id) ELSE votes
    /\ hist' = [hist EXCEPT !.call =
                    Call("submit_vote", voter_id, target_id,
                         submit_vote(players, voter_id, target_id),
                         Choice(votes, voter_id))]
    /\ env' = [env EXCEPT !.calls = @ - 1]
    /\ UNCHANGED <<messages, games, exists, players, phase, round_number, phase_ends_at,
                   phase_duration, werewolf_votes, seer_target, doctor_target,
                   tasks>>

\* GameState.submit_seer_action(seer_id, target_id), called directly.
CallSubmitSeerAction(seer_id, target_id) ==
    /\ env.calls > 0
    /\ seer_target' = IF submit_seer_action(players, seer_id, target_id)
                      THEN target_id ELSE seer_target
    /\ hist' = [hist EXCEPT !.call =
                    Call("submit_seer_action", seer_id, target_id,
                         submit_seer_action(players, seer_id, target_id),
                         seer_target)]
    /\ env' = [env EXCEPT !.calls = @ - 1]
    /\ UNCHANGED <<messages, games, exists, players, phase, round_number, phase_ends_at,
                   phase_duration, votes, werewolf_votes, doctor_target, tasks>>

\* GameState.submit_werewolf_vote(wolf_id, target_id), called directly.
CallSubmitWerewolfVote(wolf_id, target_id) ==
    /\ env.calls > 0
    /\ werewolf_votes' = IF submit_werewolf_vote(players, wolf_id, target_id)
                         THEN Put(werewolf_votes, wolf_id, target_id)
                         ELSE werewolf_votes
    /\ hist' = [hist EXCEPT !.call =
                    Call("submit_werewolf_vote", wolf_id, target_id,
                         submit_werewolf_vote(players, wolf_id, target_id),
                         Choice(werewolf_votes, wolf_id))]
    /\ env' = [env EXCEPT !.calls = @ - 1]
    /\ UNCHANGED <<messages, games, exists, players, phase, round_number, phase_ends_at,
                   phase_duration, votes, seer_target, doctor_target, tasks>>

\* GameState.submit_doctor_action(doctor_id, target_id), called directly.
CallSubmitDoctorAction(doctor_id, target_id) ==
    /\ env.calls > 0
    /\ doctor_target' = IF submit_doctor_action(players, doctor_id, target_id)
                        THEN target_id ELSE doctor_target
    /\ hist' = [hist EXCEPT !.call =
                    Call("submit_doctor_action", doctor_id, target_id,
                         submit_doctor_action(players, doctor_id, target_id),
                         doctor_target)]
    /\ env' = [env EXCEPT !.calls = @ - 1]
    /\ UNCHANGED <<messages, games, exists, players, phase, round_number, phase_ends_at,
                   phase_duration, votes, werewolf_votes, seer_target, tasks>>

\* History: the call op(arg) returned value.
Result(op, arg, value) == [op |-> op, arg |-> arg, value |-> value]

\* GameState.get_elimination_target(), called directly.
CallGetEliminationTarget ==
    /\ env.calls > 0
    /\ hist' = [hist EXCEPT !.call =
                    Result("get_elimination_target", None,
                           get_elimination_target(votes))]
    /\ env' = [env EXCEPT !.calls = @ - 1]
    /\ UNCHANGED <<room, tasks>>

\* GameState.get_werewolf_kill_target(), called directly.
CallGetWerewolfKillTarget ==
    /\ env.calls > 0
    /\ hist' = [hist EXCEPT !.call =
                    Result("get_werewolf_kill_target", None,
                           get_werewolf_kill_target(werewolf_votes))]
    /\ env' = [env EXCEPT !.calls = @ - 1]
    /\ UNCHANGED <<room, tasks>>

\* GameState.check_win_condition(), called directly.
CallCheckWinCondition ==
    /\ env.calls > 0
    /\ hist' = [hist EXCEPT !.call =
                    Result("check_win_condition", None,
                           check_win_condition(players))]
    /\ env' = [env EXCEPT !.calls = @ - 1]
    /\ UNCHANGED <<room, tasks>>

\* roles.get_role_distribution(n), called directly.
CallGetRoleDistribution(n) ==
    /\ env.calls > 0
    /\ hist' = [hist EXCEPT !.call =
                    Result("get_role_distribution", n, get_role_distribution(n))]
    /\ env' = [env EXCEPT !.calls = @ - 1]
    /\ UNCHANGED <<room, tasks>>

\* roles.assign_roles(players), called directly; an empty roster is left
\* alone (roles.py:38-39).
CallAssignRoles ==
    /\ env.deals > 0
    /\ \E shuffled \in Shuffles(get_role_distribution(Len(players))) :
           players' = assign_roles(players, shuffled)
    /\ hist' = [hist EXCEPT !.call = Result("assign_roles", Len(players), None)]
    /\ env' = [env EXCEPT !.deals = @ - 1]
    /\ UNCHANGED <<messages, games, exists, phase, round_number, phase_ends_at, phase_duration,
                   votes, werewolf_votes, seer_target, doctor_target, tasks>>

\* events.submit_vote, accepted: the vote is recorded before the vote_update
\* emit, after which the handler only returns.
SubmitVote(sid, target_id) ==
    /\ env.votes > 0
    /\ exists /\ sid \in Ids(players)
    /\ phase = VOTING
    /\ submit_vote(players, sid, target_id)
    /\ votes' = Put(votes, sid, target_id)
    /\ env' = [env EXCEPT !.votes = @ - 1]
    /\ UNCHANGED <<messages, games, exists, players, phase, round_number, phase_ends_at,
                   phase_duration, werewolf_votes, seer_target, doctor_target,
                   tasks, hist>>

\* night_action that takes every caller for a werewolf.
NightActionUnrouted(sid, target_id) ==
    /\ env.actions > 0
    /\ exists /\ sid \in Ids(players)
    /\ phase = NIGHT
    /\ Get(players, sid).is_alive
    /\ submit_werewolf_vote(players, sid, target_id)
    /\ werewolf_votes' = Put(werewolf_votes, sid, target_id)
    /\ env' = [env EXCEPT !.actions = @ - 1]
    /\ UNCHANGED <<messages, games, exists, players, phase, round_number, phase_ends_at,
                   phase_duration, votes, seer_target, doctor_target, tasks, hist>>

\* events.night_action, accepted, by the role of the caller; the werewolf
\* branch emits after the vote is recorded and then only returns.
NightAction(sid, target_id) ==
    /\ env.actions > 0
    /\ exists /\ sid \in Ids(players)
    /\ phase = NIGHT
    /\ Get(players, sid).is_alive
    /\ CASE Get(players, sid).role = WEREWOLF ->
                /\ submit_werewolf_vote(players, sid, target_id)
                /\ werewolf_votes' = Put(werewolf_votes, sid, target_id)
                /\ UNCHANGED <<seer_target, doctor_target>>
         [] Get(players, sid).role = SEER ->
                /\ submit_seer_action(players, sid, target_id)
                /\ seer_target' = target_id
                /\ UNCHANGED <<werewolf_votes, doctor_target>>
         [] Get(players, sid).role = DOCTOR ->
                /\ submit_doctor_action(players, sid, target_id)
                /\ doctor_target' = target_id
                /\ UNCHANGED <<werewolf_votes, seer_target>>
         [] OTHER -> FALSE
    /\ env' = [env EXCEPT !.actions = @ - 1]
    /\ UNCHANGED <<messages, games, exists, players, phase, round_number, phase_ends_at,
                   phase_duration, votes, tasks, hist>>

\* A submit_vote request that a check of the handler turns down
\* (events.py:152-168): nothing changes.
SubmitVoteRefused(sid, target_id) ==
    /\ env.votes > 0
    /\ ~(/\ exists /\ sid \in Ids(players)
         /\ phase = VOTING
         /\ submit_vote(players, sid, target_id))
    /\ env' = [env EXCEPT !.votes = @ - 1]
    /\ UNCHANGED <<room, tasks, hist>>

\* The checks of events.night_action and of the submit method of the
\* caller's role.
CanAct(sid, target_id) ==
    /\ exists /\ sid \in Ids(players)
    /\ phase = NIGHT
    /\ Get(players, sid).is_alive
    /\ CASE Get(players, sid).role = WEREWOLF ->
                submit_werewolf_vote(players, sid, target_id)
         [] Get(players, sid).role = SEER ->
                submit_seer_action(players, sid, target_id)
         [] Get(players, sid).role = DOCTOR ->
                submit_doctor_action(players, sid, target_id)
         [] OTHER -> FALSE

\* A night_action request that is turned down (events.py:187-228).
NightActionRefused(sid, target_id) ==
    /\ env.actions > 0
    /\ ~CanAct(sid, target_id)
    /\ env' = [env EXCEPT !.actions = @ - 1]
    /\ UNCHANGED <<room, tasks, hist>>

\* events.join_room on the room of the game (events.py:47-69): room_exists,
\* then GameManager.join_room at once; the enter_room and the emits that
\* follow change nothing.
JoinRoom(sid) ==
    /\ env.joins > 0
    /\ exists
    /\ players' = add_player(players, Player(sid, Len(players) = 0))
    /\ env' = [env EXCEPT !.joins = @ - 1]
    /\ UNCHANGED <<messages, games, exists, phase, round_number, phase_ends_at,
                   phase_duration, votes, werewolf_votes, seer_target,
                   doctor_target, tasks, hist>>

\* ------------------------------------------------------------------- chat
\* An entry of the chat log: its sender.
ChatMessage(player_id) == [player_id |-> player_id]

NewMessage(player_id) ==
    [event |-> "new_message", to |-> ROOM, player_id |-> player_id]

\* The checks of events.send_message (events.py:77-90).
CanChat(sid) ==
    /\ exists
    /\ sid \in Ids(players)
    /\ Get(players, sid).is_alive
    /\ phase # NIGHT

\* events.send_message, accepted: the message is appended; the new_message
\* emit that follows changes nothing.
SendMessage(sid) ==
    /\ env.calls > 0
    /\ CanChat(sid)
    /\ Len(messages) < MaxMessages
    /\ messages' = Append(messages, ChatMessage(sid))
    /\ env' = [env EXCEPT !.calls = @ - 1]
    /\ hist' = [hist EXCEPT !.call = Request("send_message", sid, TRUE)]
    /\ UNCHANGED <<games, exists, players, phase, round_number, phase_ends_at,
                   phase_duration, votes, werewolf_votes, seer_target,
                   doctor_target, tasks>>

\* events.send_message: a check fails and the handler returns.
SendMessageRefused(sid) ==
    /\ env.calls > 0
    /\ ~CanChat(sid)
    /\ env' = [env EXCEPT !.calls = @ - 1]
    /\ hist' = [hist EXCEPT !.call = Request("send_message", sid, FALSE)]
    /\ UNCHANGED <<room, tasks>>

\* list(self.ai_players[room_id]): the AI players in the order they were
\* added, which is their order in the roster.
Speakers(ps, ai) ==
    LET IsAi(p) == p.id \in ai IN [i \in DOMAIN SelectSeq(ps, IsAi) |-> SelectSeq(ps, IsAi)[i].id]

\* chat_loop, the for loop after the k-th AI player: the next one that is
\* in the roster and alive is up, after the stagger sleep; with none left
\* the while loop sleeps again (controller.py:241-256).
NextSpeaker(r, k) ==
    LET order == Speakers(players, env.ai)
        up == {j \in DOMAIN order : j > k /\ InRosterAlive(players, order[j])}
    IN  IF up = {}
        THEN [r EXCEPT !.pc = "chat_sleep", !.idx = 0, !.actor = None,
                       !.msg = NoMessage]
        ELSE LET j == CHOOSE j \in up : \A i \in up : j <= i
             IN  [r EXCEPT !.pc = "chat_stagger", !.idx = j, !.actor = order[j],
                           !.msg = NoMessage]

\* The interval sleep ended in DAY: the for loop begins.
ChatWake(r) ==
    /\ r.kind = "chat" /\ r.pc = "chat_sleep"
    /\ exists /\ phase = DAY
    /\ tasks' = With(Without(tasks, r), NextSpeaker(r, 0))
    /\ UNCHANGED <<room, env, hist>>

\* A sleep of the chat loop ended and the room is gone or not in DAY: break,
\* and the loop ends (controller.py:244-246, 259-261).
ChatLeave(r) ==
    /\ r.kind = "chat" /\ r.pc \in {"chat_sleep", "chat_stagger"}
    /\ ~(exists /\ phase = DAY)
    /\ tasks' = Without(tasks, r)
    /\ UNCHANGED <<room, env, hist>>

\* The stagger sleep ended in DAY: the message of the AI player is awaited
\* (decide_chat_action of an LLM player, controller.py:263-265).
ChatStaggerEnd(r) ==
    /\ r.kind = "chat" /\ r.pc = "chat_stagger"
    /\ exists /\ phase = DAY
    /\ tasks' = With(Without(tasks, r), [r EXCEPT !.pc = "chat_llm"])
    /\ UNCHANGED <<room, env, hist>>

\* The AI player has a message: game.add_message, then the new_message emit
\* (controller.py:267-273).
ChatSays(r) ==
    /\ r.kind = "chat" /\ r.pc = "chat_llm"
    /\ Len(messages) < MaxMessages
    /\ messages' = Append(messages, ChatMessage(r.actor))
    /\ tasks' = With(Without(tasks, r),
                     [r EXCEPT !.pc = "chat_emit", !.msg = NewMessage(r.actor)])
    /\ UNCHANGED <<games, exists, players, phase, round_number, phase_ends_at,
                   phase_duration, votes, werewolf_votes, seer_target,
                   doctor_target, env, hist>>

\* The AI player has nothing to say, or the emit returned: on with the loop.
ChatNext(r) ==
    /\ r.kind = "chat" /\ r.pc \in {"chat_llm", "chat_emit"}
    /\ tasks' = With(Without(tasks, r), NextSpeaker(r, r.idx))
    /\ UNCHANGED <<room, env, hist>>

\* ---------------------------------------------------- scheduled AI tasks
\* The checks of submit_vote_task / submit_action_task after the sleep
\* (controller.py:366-372, 417-423).
AiMayAct(r) ==
    /\ exists
    /\ phase = r.ph
    /\ r.actor \in Ids(players)
    /\ Get(players, r.actor).is_alive

\* valid_targets of _submit_single_ai_vote / _submit_single_ai_night_action.
ValidTargets(ps, r) ==
    LET alive == {ps[i].id : i \in {j \in DOMAIN ps : ps[j].is_alive}}
        wolf_ids == {id \in alive : Get(ps, id).role = WEREWOLF}
        me == Get(ps, r.actor)
    IN  IF r.kind = "ai_vote"
        THEN IF me.team = MAFIA THEN alive \ ({r.actor} \cup wolf_ids)
             ELSE alive \ {r.actor}
        ELSE CASE me.role = WEREWOLF -> alive \ ({r.actor} \cup wolf_ids)
               [] me.role = SEER -> alive \ {r.actor}
               [] me.role = DOCTOR -> alive
               [] OTHER -> {}

\* The sleep of a scheduled AI task ended and its checks pass: the valid
\* targets are computed and the decision of the LLM player is awaited.
AiWake(r) ==
    /\ r.pc = "ai_sleep"
    /\ AiMayAct(r)
    /\ ValidTargets(players, r) # {}
    /\ tasks' = With(Without(tasks, r),
                     [r EXCEPT !.pc = "ai_choose",
                               !.valid_targets = ValidTargets(players, r)])
    /\ UNCHANGED <<room, env, hist>>

\* The sleep ended and a check fails, or there is no valid target: the task
\* returns.
AiGiveUp(r) ==
    /\ r.pc = "ai_sleep"
    /\ ~(AiMayAct(r) /\ ValidTargets(players, r) # {})
    /\ tasks' = Without(tasks, r)
    /\ UNCHANGED <<room, env, hist>>

\* The decision arrived: game.submit_vote with it (controller.py:478-480);
\* the vote_update emit that follows changes nothing.
AiSubmitVote(r, target_id) ==
    /\ r.kind = "ai_vote" /\ r.pc = "ai_choose"
    /\ target_id \in r.valid_targets
    /\ votes' = IF submit_vote(players, r.actor, target_id)
                THEN Put(votes, r.actor, target_id) ELSE votes
    /\ tasks' = Without(tasks, r)
    /\ UNCHANGED <<messages, games, exists, players, phase, round_number, phase_ends_at,
                   phase_duration, werewolf_votes, seer_target, doctor_target,
                   env, hist>>

\* The decision arrived: the submit method of the AI player's role
\* (controller.py:529-550).
AiSubmitNight(r, target_id) ==
    /\ r.kind = "ai_action" /\ r.pc = "ai_choose"
    /\ target_id \in r.valid_targets
    /\ r.actor \in Ids(players)
    /\ LET role == Get(players, r.actor).role
       IN  /\ werewolf_votes' =
                  IF role = WEREWOLF /\ submit_werewolf_vote(players, r.actor, target_id)
                  THEN Put(werewolf_votes, r.actor, target_id) ELSE werewolf_votes
           /\ seer_target' =
                  IF role = SEER /\ submit_seer_action(players, r.actor, target_id)
                  THEN target_id ELSE seer_target
           /\ doctor_target' =
                  IF role = DOCTOR /\ submit_doctor_action(players, r.actor, target_id)
                  THEN target_id ELSE doctor_target
    /\ tasks' = Without(tasks, r)
    /\ UNCHANGED <<messages, games, exists, players, phase, round_number, phase_ends_at,
                   phase_duration, votes, env, hist>>

\* ------------------------------------------------- transition_after_delay
Asleep(r) == r.kind = "timer" /\ r.pc = "sleep"

\* Lines 147-154 after the resolution returned False: the round counter and
\* transition_to(next) up to its emit; transition_to returns at once when
\* the room is gone (phase.py:70-72).  others: the other tasks.
Advance(r, next, others, h) ==
    /\ next = DAY => round_number < MaxRound
    /\ round_number' = IF next = DAY THEN round_number + 1 ELSE round_number
    /\ IF exists
       THEN transition_to(r, next, others, h)
       ELSE /\ tasks' = others
            /\ hist' = h
            /\ UNCHANGED <<votes, werewolf_votes, seer_target, doctor_target,
                           phase, phase_duration, phase_ends_at>>
    /\ UNCHANGED <<messages, games, exists, players, env>>

\* The sleep ended and the callback goes on without looking for the room.
TimerFireBlind(r) ==
    /\ Asleep(r)
    /\ ~exists
    /\ Advance(r, _get_next_phase(phase), Unregister(Without(tasks, r)), hist)

\* The sleep ended and the room is gone: the callback removes its entry
\* from phase_tasks, get_game returns None and it returns (phase.py:124-131).
TimerFireNoGame(r) ==
    /\ Asleep(r)
    /\ ~exists
    /\ tasks' = Unregister(Without(tasks, r))
    /\ UNCHANGED <<room, env, hist>>

\* The sleep ended in a phase with no resolution: straight to the transition.
TimerFireAdvance(r) ==
    /\ Asleep(r)
    /\ exists
    /\ phase \notin {VOTING, NIGHT}
    /\ Advance(r, _get_next_phase(phase), Unregister(Without(tasks, r)),
               NoteFire(hist, r))

\* The sleep ended in VOTING: _resolve_votes up to its emit, no target.
TimerFireNoElimination(r) ==
    /\ Asleep(r)
    /\ exists
    /\ phase = VOTING
    /\ get_elimination_target(votes) = None
    /\ tasks' = With(Unregister(Without(tasks, r)),
                     [r EXCEPT !.pc = "rv_none", !.reg = FALSE,
                               !.next_phase = _get_next_phase(phase),
                               !.msg = PlayerEliminated(NoPlayer)])
    /\ hist' = NoteFire(hist, r)
    /\ UNCHANGED <<room, env>>

\* The sleep ended in VOTING and the target is not in the roster any more:
\* _resolve_votes returns False with nothing emitted (phase.py:245-247), and
\* the callback goes on to the transition.
TimerFireTargetGone(r) ==
    /\ Asleep(r)
    /\ exists
    /\ phase = VOTING
    /\ get_elimination_target(votes) # None
    /\ get_elimination_target(votes) \notin Ids(players)
    /\ Advance(r, _get_next_phase(phase), Unregister(Without(tasks, r)),
               NoteFire(hist, r))

\* The sleep ended in VOTING: the target is eliminated, then the emit.
TimerFireEliminate(r) ==
    /\ Asleep(r)
    /\ exists
    /\ phase = VOTING
    /\ get_elimination_target(votes) \in Ids(players)
    /\ players' = Kill(players, get_elimination_target(votes))
    /\ tasks' = With(Unregister(Without(tasks, r)),
                     [r EXCEPT !.pc = "rv_emit", !.reg = FALSE,
                               !.next_phase = _get_next_phase(phase),
                               !.msg = PlayerEliminated(
                                   Get(players, get_elimination_target(votes)))])
    /\ hist' = NoteFire(hist, r)
    /\ UNCHANGED <<messages, games, exists, phase, round_number, phase_ends_at, phase_duration,
                   votes, werewolf_votes, seer_target, doctor_target, env>>

\* _resolve_night_actions, step 3: is a seer_result emitted?
SeerEmits(ps, target) ==
    /\ target # None
    /\ \E i \in DOMAIN ps : ps[i].role = SEER /\ ps[i].is_alive
    /\ target \in Ids(ps)

\* _resolve_night_actions, step 3: the first living seer of the roster.
FirstSeer(ps) ==
    ps[CHOOSE i \in DOMAIN ps :
           /\ ps[i].role = SEER /\ ps[i].is_alive
           /\ \A j \in 1 .. i - 1 : ~(ps[j].role = SEER /\ ps[j].is_alive)]

\* Step 4 without the comparison with the doctor's target.
ApplyKillUnprotected(ps, kill_target_id, protected_id) ==
    IF /\ kill_target_id # None
       /\ kill_target_id \in Ids(ps)
       /\ Get(ps, kill_target_id).is_alive
    THEN Kill(ps, kill_target_id)
    ELSE ps

\* _resolve_night_actions, step 4: the roster after the kill.
ApplyKill(ps, kill_target_id, protected_id) ==
    IF /\ kill_target_id # None
       /\ kill_target_id # protected_id
       /\ kill_target_id \in Ids(ps)
       /\ Get(ps, kill_target_id).is_alive
    THEN Kill(ps, kill_target_id)
    ELSE ps

\* Step 4 with nothing appended to `deaths`.
DeathsNone(ps, kill_target_id, protected_id) == {}

\* _resolve_night_actions, step 4: the list `deaths` (ids).
Deaths(ps, kill_target_id, protected_id) ==
    IF /\ kill_target_id # None
       /\ kill_target_id # protected_id
       /\ kill_target_id \in Ids(ps)
       /\ Get(ps, kill_target_id).is_alive
    THEN {kill_target_id}
    ELSE {}

\* _resolve_night_actions, step 4: the kill target is the protected player
\* and is not in the roster any more, so `game.players.get(kill_target_id)
\* .name` (phase.py:306) raises AttributeError.
SavedGone(ps, kill_target_id, protected_id) ==
    /\ kill_target_id # None
    /\ kill_target_id = protected_id
    /\ kill_target_id \notin Ids(ps)

\* The sleep ended in NIGHT and a seer result is due: steps 1-3 up to the
\* seer_result emit; the two targets were read before it.
TimerFireSeer(r) ==
    /\ Asleep(r)
    /\ exists
    /\ phase = NIGHT
    /\ SeerEmits(players, seer_target)
    /\ tasks' = With(Unregister(Without(tasks, r)),
                     [r EXCEPT !.pc = "rn_seer", !.reg = FALSE,
                               !.next_phase = _get_next_phase(phase),
                               !.protected_id = doctor_target,
                               !.kill_target_id =
                                   get_werewolf_kill_target(werewolf_votes),
                               !.msg = SeerResult(FirstSeer(players),
                                                  Get(players, seer_target))])
    /\ hist' = NoteFire(hist, r)
    /\ UNCHANGED <<room, env>>

\* The sleep ended in NIGHT with no seer result: steps 1-5 up to the
\* night_result emit.
TimerFireKill(r) ==
    /\ Asleep(r)
    /\ exists
    /\ phase = NIGHT
    /\ ~SeerEmits(players, seer_target)
    /\ ~SavedGone(players, get_werewolf_kill_target(werewolf_votes), doctor_target)
    /\ players' = ApplyKill(players, get_werewolf_kill_target(werewolf_votes),
                            doctor_target)
    /\ tasks' = With(Unregister(Without(tasks, r)),
                     [r EXCEPT !.pc = "rn_result", !.reg = FALSE,
                               !.next_phase = _get_next_phase(phase),
                               !.protected_id = doctor_target,
                               !.kill_target_id =
                                   get_werewolf_kill_target(werewolf_votes),
                               !.msg = NightResult(Deaths(players,
                                   get_werewolf_kill_target(werewolf_votes),
                                   doctor_target))])
    /\ hist' = NoteFire(hist, r)
    /\ UNCHANGED <<messages, games, exists, phase, round_number, phase_ends_at, phase_duration,
                   votes, werewolf_votes, seer_target, doctor_target, env>>

\* The seer_result emit returned: steps 4-5 with the targets read in steps 1-2.
ResumeKill(r) ==
    /\ r.pc = "rn_seer"
    /\ ~SavedGone(players, r.kill_target_id, r.protected_id)
    /\ players' = ApplyKill(players, r.kill_target_id, r.protected_id)
    /\ tasks' = With(Without(tasks, r),
                     [r EXCEPT !.pc = "rn_result",
                               !.msg = NightResult(Deaths(players, r.kill_target_id,
                                                          r.protected_id))])
    /\ UNCHANGED <<messages, games, exists, phase, round_number, phase_ends_at, phase_duration,
                   votes, werewolf_votes, seer_target, doctor_target, env, hist>>

\* The sleep ended in NIGHT with no seer result, and step 4 raises: the
\* exception is caught and logged by transition_after_delay
\* (phase.py:157-158), which ends with no night_result and no transition.
TimerFireSavedGone(r) ==
    /\ Asleep(r)
    /\ exists
    /\ phase = NIGHT
    /\ ~SeerEmits(players, seer_target)
    /\ SavedGone(players, get_werewolf_kill_target(werewolf_votes), doctor_target)
    /\ tasks' = Unregister(Without(tasks, r))
    /\ hist' = NoteFire(hist, r)
    /\ UNCHANGED <<room, env>>

\* The seer_result emit returned and step 4 raises.
ResumeSavedGone(r) ==
    /\ r.pc = "rn_seer"
    /\ SavedGone(players, r.kill_target_id, r.protected_id)
    /\ tasks' = Without(tasks, r)
    /\ UNCHANGED <<room, env, hist>>

\* The player_eliminated(None) emit returned: _resolve_votes returns False.
ResumeNoElimination(r) ==
    /\ r.pc = "rv_none"
    /\ Advance(r, r.next_phase, Without(tasks, r), hist)

\* The player_eliminated / night_result emit returned and
\* _check_and_end_game finds no winner.
CheckNoWinner(r) ==
    /\ r.pc \in {"rv_emit", "rn_result"}
    /\ check_win_condition(players) = None
    /\ Advance(r, r.next_phase, Without(tasks, r), hist)

\* _check_and_end_game finds a winner: up to the game_ended emit.
CheckWinner(r) ==
    /\ r.pc \in {"rv_emit", "rn_result"}
    /\ check_win_condition(players) # None
    /\ tasks' = With(Without(tasks, r),
                     [r EXCEPT !.pc = "ce_ended",
                               !.msg = GameEnded(check_win_condition(players), players)])
    /\ UNCHANGED <<room, env, hist>>

\* The game_ended emit returned: the pending timer is cancelled and the room
\* is put in ENDED, up to the phase_changed emit (phase.py:205-224).
EndGame(r) ==
    /\ r.pc = "ce_ended"
    /\ phase' = ENDED
    /\ phase_ends_at' = None
    /\ phase_duration' = 0
    /\ tasks' = With(CancelPending(Without(tasks, r)),
                     [r EXCEPT !.pc = "ce_phase", !.ph = ENDED, !.next_phase = None,
                               !.msg = PhaseChanged(ENDED, None, round_number)])
    /\ UNCHANGED <<messages, games, exists, players, round_number, votes, werewolf_votes,
                   seer_target, doctor_target, env, hist>>

\* The phase_changed emit returned: _check_and_end_game returns True and the
\* callback returns (phase.py:148-149).
EndGameReturn(r) ==
    /\ r.pc = "ce_phase"
    /\ tasks' = Without(tasks, r)
    /\ UNCHANGED <<room, env, hist>>

\* ----------------------------------------------------------- emit failure
\* The awaits that are sio.emit calls.
EmitPoints ==
    {"sg_roles", "tt_emit", "rv_none", "rv_emit", "rn_seer", "rn_result",
     "ce_ended", "ce_phase"}

\* The emit r is suspended at raises.  In a timer the exception reaches
\* `except Exception` of transition_after_delay, which logs it
\* (phase.py:157-158); in a handler it leaves the handler.  Either way the
\* task ends with the rest of its code not run.
EmitFails(r) ==
    /\ env.fails > 0
    /\ r.pc \in EmitPoints
    /\ tasks' = Without(tasks, r)
    /\ env' = [env EXCEPT !.fails = @ - 1]
    /\ UNCHANGED <<room, hist>>

\* ------------------------------------------------------------------- Next
\* The three-player room: one werewolf and two villagers, so no seer result
\* is ever due; nobody acts at night.
Next ==
    \/ \E sid \in Sids : StartGame(sid)
    \/ \E sid \in Sids : StartGameRefused(sid)
    \/ \E r \in Running : StartNextRole(r)
    \/ \E r \in Running : StartEnterDay(r)
    \/ \E r \in Running : TransitionResume(r)
    \/ \E sid \in Sids : SkipToVoting(sid)
    \/ \E sid \in Sids : SkipRefused(sid)
    \/ \E sid \in Sids, target_id \in Sids : SubmitVote(sid, target_id)
    \/ \E r \in Running : TimerFireAdvance(r)
    \/ \E r \in Running : TimerFireNoElimination(r)
    \/ \E r \in Running : TimerFireEliminate(r)
    \/ \E r \in Running : TimerFireKill(r)
    \/ \E r \in Running : ResumeNoElimination(r)
    \/ \E r \in Running : CheckNoWinner(r)
    \/ \E r \in Running : CheckWinner(r)
    \/ \E r \in Running : EndGame(r)
    \/ \E r \in Running : EndGameReturn(r)

Spec == Init /\ [][Next]_vars

\* The four-player room at night: nobody votes by day and the host does not
\* skip.
NextNight ==
    \/ \E sid \in Sids : StartGame(sid)
    \/ \E r \in Running : StartNextRole(r)
    \/ \E r \in Running : StartEnterDay(r)
    \/ \E r \in Running : TransitionResume(r)
    \/ \E sid \in Sids, target_id \in Sids : NightAction(sid, target_id)
    \/ \E r \in Running : TimerFireAdvance(r)
    \/ \E r \in Running : TimerFireNoElimination(r)
    \/ \E r \in Running : TimerFireSeer(r)
    \/ \E r \in Running : TimerFireKill(r)
    \/ \E r \in Running : ResumeKill(r)
    \/ \E r \in Running : ResumeNoElimination(r)
    \/ \E r \in Running : CheckNoWinner(r)
    \/ \E r \in Running : CheckWinner(r)
    \/ \E r \in Running : EndGame(r)
    \/ \E r \in Running : EndGameReturn(r)

SpecNight == InitNight /\ [][NextNight]_vars

\* The four-player game with day votes and night actions, the host not
\* skipping.
NextGame ==
    \/ \E sid \in Sids : StartGame(sid)
    \/ \E r \in Running : StartNextRole(r)
    \/ \E r \in Running : StartEnterDay(r)
    \/ \E r \in Running : TransitionResume(r)
    \/ \E sid \in Sids, target_id \in Sids : SubmitVote(sid, target_id)
    \/ \E sid \in Sids, target_id \in Sids : NightAction(sid, target_id)
    \/ \E r \in Running : TimerFireAdvance(r)
    \/ \E r \in Running : TimerFireNoElimination(r)
    \/ \E r \in Running : TimerFireEliminate(r)
    \/ \E r \in Running : TimerFireSeer(r)
    \/ \E r \in Running : TimerFireKill(r)
    \/ \E r \in Running : ResumeKill(r)
    \/ \E r \in Running : ResumeNoElimination(r)
    \/ \E r \in Running : CheckNoWinner(r)
    \/ \E r \in Running : CheckWinner(r)
    \/ \E r \in Running : EndGame(r)
    \/ \E r \in Running : EndGameReturn(r)

SpecGame == InitGame /\ [][NextGame]_vars

\* The six-player game once started, where a player may leave at any
\* moment; nobody votes by day.
NextDoctor ==
    \/ \E r \in Running : TransitionResume(r)
    \/ \E sid \in Sids : LeaveRoom(sid)
    \/ \E sid \in Sids, target_id \in Sids : NightAction(sid, target_id)
    \/ \E r \in Running : TimerFireAdvance(r)
    \/ \E r \in Running : TimerFireNoElimination(r)
    \/ \E r \in Running : TimerFireSeer(r)
    \/ \E r \in Running : TimerFireKill(r)
    \/ \E r \in Running : TimerFireSavedGone(r)
    \/ \E r \in Running : ResumeKill(r)
    \/ \E r \in Running : ResumeSavedGone(r)
    \/ \E r \in Running : ResumeNoElimination(r)
    \/ \E r \in Running : CheckNoWinner(r)
    \/ \E r \in Running : CheckWinner(r)
    \/ \E r \in Running : EndGame(r)
    \/ \E r \in Running : EndGameReturn(r)

SpecDoctor == InitDoctor /\ [][NextDoctor]_vars

\* The four-player game once started, two of the players AI players.
NextAI ==
    \/ \E r \in Running : TransitionResume(r)
    \/ \E sid \in Sids, target_id \in Sids : SubmitVote(sid, target_id)
    \/ \E sid \in Sids, target_id \in Sids : SubmitVoteRefused(sid, target_id)
    \/ \E sid \in Sids, target_id \in Sids : NightAction(sid, target_id)
    \/ \E sid \in Sids, target_id \in Sids : NightActionRefused(sid, target_id)
    \/ \E r \in Running : AiWake(r)
    \/ \E r \in Running : AiGiveUp(r)
    \/ \E r \in Running, target_id \in Sids : AiSubmitVote(r, target_id)
    \/ \E r \in Running, target_id \in Sids : AiSubmitNight(r, target_id)
    \/ \E r \in Running : TimerFireAdvance(r)
    \/ \E r \in Running : TimerFireNoElimination(r)
    \/ \E r \in Running : TimerFireEliminate(r)
    \/ \E r \in Running : TimerFireSeer(r)
    \/ \E r \in Running : TimerFireKill(r)
    \/ \E r \in Running : ResumeKill(r)
    \/ \E r \in Running : ResumeNoElimination(r)
    \/ \E r \in Running : CheckNoWinner(r)
    \/ \E r \in Running : CheckWinner(r)
    \/ \E r \in Running : EndGame(r)
    \/ \E r \in Running : EndGameReturn(r)

SpecAI == InitAI /\ [][NextAI]_vars

\* The plurality functions of GameState.
NextTally ==
    \/ CallGetEliminationTarget
    \/ CallGetWerewolfKillTarget

SpecTally == InitTally /\ [][NextTally]_vars

\* The role functions and the win condition.
NextRoles ==
    \/ CallAssignRoles
    \/ CallCheckWinCondition
    \/ \E n \in 0 .. MaxRoster + 1 : CallGetRoleDistribution(n)

SpecRoles == InitRoles /\ [][NextRoles]_vars

\* start_game while clients join the room.
NextJoin ==
    \/ \E sid \in Sids : StartGame(sid)
    \/ \E r \in Running : StartNextRole(r)
    \/ \E r \in Running : StartRoleMissing(r)
    \/ \E r \in Running : StartRosterChanged(r)
    \/ \E r \in Running : StartEnterDay(r)
    \/ \E r \in Running : TransitionResume(r)
    \/ \E sid \in Joiners : CallJoinRoom(MAIN, sid)

SpecJoin == InitJoin /\ [][NextJoin]_vars

\* The rooms of the manager: created, joined, left, disconnected from.
NextManager ==
    \/ \E room_id \in OtherRooms : CallCreateRoom(room_id)
    \/ \E room_id \in {MAIN} \cup OtherRooms, sid \in Clients :
           \/ CallJoinRoom(room_id, sid)
           \/ CallLeaveRoom(room_id, sid)
    \/ \E sid \in Clients : CallDisconnectPlayer(sid)

SpecManager == InitManager /\ [][NextManager]_vars

\* The submit methods of GameState, called with any ids.
NextSubmit ==
    \/ \E voter_id \in Sids, target_id \in Sids :
           CallSubmitVote(voter_id, target_id)
    \/ \E seer_id \in Sids, target_id \in Sids :
           CallSubmitSeerAction(seer_id, target_id)
    \/ \E wolf_id \in Sids, target_id \in Sids :
           CallSubmitWerewolfVote(wolf_id, target_id)
    \/ \E doctor_id \in Sids, target_id \in Sids :
           CallSubmitDoctorAction(doctor_id, target_id)

SpecSubmit == InitSubmit /\ [][NextSubmit]_vars

\* The three-player room where a player may leave at any moment; nobody
\* acts at night.
NextLeave ==
    \/ \E sid \in Sids : StartGame(sid)
    \/ \E r \in Running : StartRosterChanged(r)
    \/ \E r \in Running : StartNextRole(r)
    \/ \E r \in Running : StartEnterDay(r)
    \/ \E r \in Running : TransitionResume(r)
    \/ \E sid \in Sids : LeaveRoom(sid)
    \/ \E sid \in Sids, target_id \in Sids : SubmitVote(sid, target_id)
    \/ \E r \in Running : TimerFireAdvance(r)
    \/ \E r \in Running : TimerFireNoElimination(r)
    \/ \E r \in Running : TimerFireTargetGone(r)
    \/ \E r \in Running : TimerFireEliminate(r)
    \/ \E r \in Running : TimerFireKill(r)
    \/ \E r \in Running : ResumeNoElimination(r)
    \/ \E r \in Running : CheckNoWinner(r)
    \/ \E r \in Running : CheckWinner(r)
    \/ \E r \in Running : EndGame(r)
    \/ \E r \in Running : EndGameReturn(r)

SpecLeave == InitLeave /\ [][NextLeave]_vars

\* The three-player room until its last player has left, and the timers
\* that outlive it.
NextGone ==
    \/ NextLeave
    \/ \E r \in Running : TimerFireNoGame(r)

SpecGone == InitGone /\ [][NextGone]_vars

\* The host-only requests from any client, while the game starts and the
\* DAY timer runs.
NextAsk ==
    \/ \E sid \in Sids : CallStartGame(sid)
    \/ \E sid \in Sids : CallStartGameRefused(sid)
    \/ \E sid \in Sids : CallSkipToVoting(sid)
    \/ \E sid \in Sids : CallSkipRefused(sid)
    \/ \E r \in Running : StartNextRole(r)
    \/ \E r \in Running : StartEnterDay(r)
    \/ \E r \in Running : TransitionResume(r)
    \/ \E r \in Running : TimerFireAdvance(r)

SpecAsk == InitAsk /\ [][NextAsk]_vars

\* The game of two humans and an AI player up to the first NIGHT, with
\* the chat of all three.
NextChat ==
    \/ \E sid \in Sids : StartGame(sid)
    \/ \E r \in Running : StartNextRole(r)
    \/ \E r \in Running : StartEnterDay(r)
    \/ \E r \in Running : TransitionResume(r)
    \/ \E r \in Running : TimerFireAdvance(r)
    \/ \E r \in Running : TimerFireNoElimination(r)
    \/ \E r \in Running : ResumeNoElimination(r)
    \/ \E r \in Running : AiGiveUp(r)
    \/ \E sid \in Sids : SendMessage(sid)
    \/ \E sid \in Sids : SendMessageRefused(sid)
    \/ \E r \in Running : ChatWake(r)
    \/ \E r \in Running : ChatLeave(r)
    \/ \E r \in Running : ChatStaggerEnd(r)
    \/ \E r \in Running : ChatSays(r)
    \/ \E r \in Running : ChatNext(r)

SpecChat == InitChat /\ [][NextChat]_vars

\* The six-player game once started, the seer an AI player, where clients
\* send night actions and join_room.
NextRoute ==
    \/ \E r \in Running : TransitionResume(r)
    \/ \E sid \in Rejoiners : JoinRoom(sid)
    \/ \E sid \in Sids \cup Rejoiners, target_id \in Sids : NightAction(sid, target_id)
    \/ \E sid \in Sids \cup Rejoiners, target_id \in Sids : NightActionRefused(sid, target_id)
    \/ \E r \in Running : AiWake(r)
    \/ \E r \in Running : AiGiveUp(r)
    \/ \E r \in Running, target_id \in Sids : AiSubmitVote(r, target_id)
    \/ \E r \in Running, target_id \in Sids : AiSubmitNight(r, target_id)
    \/ \E r \in Running : TimerFireAdvance(r)
    \/ \E r \in Running : TimerFireNoElimination(r)
    \/ \E r \in Running : TimerFireEliminate(r)
    \/ \E r \in Running : TimerFireSeer(r)
    \/ \E r \in Running : TimerFireKill(r)
    \/ \E r \in Running : ResumeKill(r)
    \/ \E r \in Running : ResumeNoElimination(r)
    \/ \E r \in Running : CheckNoWinner(r)
    \/ \E r \in Running : CheckWinner(r)
    \/ \E r \in Running : EndGame(r)
    \/ \E r \in Running : EndGameReturn(r)

SpecRoute == InitRoute /\ [][NextRoute]_vars

\* The four-player game with night actions where start_game is requested
\* twice.
SpecSeer == InitSeer /\ [][NextNight]_vars

NextFail ==
    \/ NextNight
    \/ \E r \in Running : EmitFails(r)

SpecFail == InitFail /\ [][NextFail]_vars

\* ------------------------------------------------------------- properties
Alive(ps) == [i \in DOMAIN ps |-> ps[i].is_alive]

RolesOf(ps) == [i \in DOMAIN ps |-> <<ps[i].role, ps[i].team>>]

AllHaveRoles(ps) == \A i \in DOMAIN ps : ps[i].role \in Role

Pending(b) == Copies(b, {r \in BagToSet(b) : Asleep(r)})

At(b, kind, pc) == Copies(b, {r \in BagToSet(b) : r.kind = kind /\ r.pc = pc})

StartTasks(b) == Copies(b, {r \in BagToSet(b) : r.kind = "start"})

\* C1: a room never has more than one live timer task (scheduled, neither
\* finished nor cancelled), whatever the interleaving of start_game,
\* skip_to_voting, timers and the emits inside transition_to.
C1_AtMostOneLiveTimer == LiveTimers(tasks) <= 1

\* C2: the phase changes only along LOBBY->DAY, DAY->VOTING, VOTING->NIGHT,
\* NIGHT->DAY, VOTING->ENDED and NIGHT->ENDED, and no transition_to(ENDED)
\* is ever run (ENDED is not entered through the successor table).
C2_PhaseEdges ==
    [][/\ phase' # phase =>
              <<phase, phase'>> \in
                  {<<LOBBY, DAY>>, <<DAY, VOTING>>, <<VOTING, NIGHT>>,
                   <<NIGHT, DAY>>, <<VOTING, ENDED>>, <<NIGHT, ENDED>>}
       /\ \A r \in BagToSet(tasks') : ~(r.pc = "tt_emit" /\ r.ph = ENDED)]_vars

\* C3: in ENDED the deadline is absent, the duration is 0 and no timer is
\* pending; once ENDED the phase stays ENDED and no alive flag and no
\* round_number changes.
C3_EndedIsFinal ==
    [][phase' = ENDED =>
          /\ phase_ends_at' = None
          /\ phase_duration' = 0
          /\ Pending(tasks') = 0
          /\ phase = ENDED =>
                 /\ Alive(players') = Alive(players)
                 /\ round_number' = round_number]_vars

\* A start_game request arrives in this step, and it passes the checks: a
\* start_game call is in progress from now on.
StartRequest == env'.starts < env.starts

StartAccepted == StartTasks(tasks') > StartTasks(tasks)

\* A start_game call returns True in this step.
StartReturns == hist'.start_ok > hist.start_ok

C5_RolesAssignedOnce ==
    [][/\ hist'.assigns <= 1
       /\ hist'.start_ok <= 1
       /\ AllHaveRoles(players) => RolesOf(players') = RolesOf(players)]_vars

\* C6: a skip_to_voting request succeeds only in DAY; it then enters VOTING
\* with an empty day-vote tally and changes no alive flag and no
\* round_number, and the timer of the DAY it ended never wakes up to act;
\* a refused request changes nothing.
C6_SkipToVoting ==
    [][/\ env'.skips < env.skips =>
              IF At(tasks', "skip", "tt_emit") > At(tasks, "skip", "tt_emit")
              THEN /\ phase = DAY
                   /\ phase' = VOTING
                   /\ votes' = EmptyTally
                   /\ Alive(players') = Alive(players)
                   /\ round_number' = round_number
              ELSE UNCHANGED <<room, tasks>>
       /\ ~hist'.stale_fire]_vars

\* C7: the night kill is decided from the doctor target and the werewolf
\* tally as they stand when the kill mutation begins (the step that brings
\* the callback to the night_result emit).
C7_KillUsesLatestSubmissions ==
    [][At(tasks', "timer", "rn_result") > At(tasks, "timer", "rn_result") =>
          players' = ApplyKill(players, get_werewolf_kill_target(werewolf_votes),
                               doctor_target)]_vars

\* C8: an emit that raises during the boundary resolution does not prevent
\* the death the callback has decided from being recorded.  The callback
\* ends with the failure, so the death is recorded by then or never.
C8_DeathSurvivesEmitFailure ==
    [][\A r \in Running :
          r.pc \in {"rv_emit", "rn_seer", "rn_result"}
          /\ env'.fails < env.fails /\ tasks' = Without(tasks, r) =>
              players' = ApplyKill(players, r.kill_target_id, r.protected_id)]_vars

\* C9: a room in DAY, VOTING or NIGHT always has a pending timer or a
\* callback or phase entry in flight, also after an emit has raised.
C9_NeverStranded ==
    exists /\ phase \in {DAY, VOTING, NIGHT} => BagToSet(tasks) # {}

\* C10: once the game has started round_number equals the number of DAY
\* entries; it is set to 1 by the first entry (from LOBBY) and otherwise
\* changes only by +1 on a NIGHT->DAY transition.
C10_RoundCountsDays ==
    [][/\ phase' # LOBBY => round_number' = hist'.day_entries
       /\ round_number' # round_number =>
              \/ phase = LOBBY /\ phase' = DAY /\ round_number' = 1
              \/ phase = NIGHT /\ phase' = DAY /\ round_number' = round_number + 1]_vars

\* Calls of transition_to(ph) suspended at their phase_changed emit.
EntryTasks(b, ph) == Copies(b, {r \in BagToSet(b) : r.pc = "tt_emit" /\ r.ph = ph})

\* The room enters ph in this step.
Enters(ph) == EntryTasks(tasks', ph) > EntryTasks(tasks, ph)

\* C11: right after every entry into VOTING the day-vote tally is empty, and
\* right after every entry into NIGHT the werewolf tally is empty and the
\* seer and doctor targets are absent.
C11_TalliesResetOnEntry ==
    [][/\ Enters(VOTING) => votes' = EmptyTally
       /\ Enters(NIGHT) =>
              /\ werewolf_votes' = EmptyTally
              /\ seer_target' = None
              /\ doctor_target' = None]_vars

\* The second NIGHT has just been entered, after day votes and night
\* actions of the game so far.
C11_Witness ==
    /\ EntryTasks(tasks, NIGHT) > 0
    /\ round_number = 2
    /\ env.votes < MaxBallots
    /\ env.actions < MaxBallots
    /\ werewolf_votes = EmptyTally

\* The timer of the room wakes up in VOTING in this step (a cancellation by
\* _check_and_end_game is not a wake-up).
VotingTimerFires ==
    /\ phase = VOTING
    /\ At(tasks', "timer", "sleep") < At(tasks, "timer", "sleep")
    /\ At(tasks', "timer", "ce_phase") = At(tasks, "timer", "ce_phase")

\* Emits of the notification m that are in progress.
Emitting(b, m) == Copies(b, {r \in BagToSet(b) : r.msg = m})

\* The notification m is emitted in this step.
Sent(m) == Emitting(tasks', m) > Emitting(tasks, m)

\* Emits of player_eliminated to the room that are in progress.
EliminationEmits(b) ==
    Copies(b, {r \in BagToSet(b) :
                  r.msg.event = "player_eliminated" /\ r.msg.to = ROOM})

\* C12: when the VOTING timer fires and the tally has a unique plurality
\* target, that player and only that player is marked not-alive and
\* player_eliminated carries its id, role and team; when the tally is empty
\* or tied, no alive flag changes and the notification carries a null
\* elimination.
C12_VoteResolution ==
    [][VotingTimerFires =>
          LET target_id == get_elimination_target(votes)
          IN  IF target_id # None
              THEN /\ target_id \in Ids(players)
                   /\ Len(players') = Len(players)
                   /\ \A i \in DOMAIN players :
                          /\ players'[i].id = players[i].id
                          /\ players'[i].is_alive =
                                 (players[i].is_alive /\ players[i].id # target_id)
                   /\ Sent([event |-> "player_eliminated", to |-> ROOM,
                            eliminated |->
                                [id |-> target_id,
                                 role |-> Get(players, target_id).role,
                                 team |-> Get(players, target_id).team]])
              ELSE /\ players' = players
                   /\ Sent([event |-> "player_eliminated", to |-> ROOM,
                            eliminated |->
                                [id |-> None, role |-> None, team |-> None]])]_vars

\* C13: every resolution of a VOTING boundary emits exactly one
\* player_eliminated notification to the room, whatever the tally holds and
\* whoever left during the phase.
C13_OneEliminationNotice ==
    [][VotingTimerFires =>
          EliminationEmits(tasks') = EliminationEmits(tasks) + 1]_vars

\* C14: the room enters NIGHT only when the win condition, evaluated after
\* the vote resolution, names no team.
C14_NoNightAfterWin ==
    [][Enters(NIGHT) => check_win_condition(players') = None]_vars

\* The timer of the room wakes up in NIGHT in this step.
NightTimerFires ==
    /\ phase = NIGHT
    /\ At(tasks', "timer", "sleep") < At(tasks, "timer", "sleep")
    /\ At(tasks', "timer", "ce_phase") = At(tasks, "timer", "ce_phase")

\* The tasks that arrive at pc in this step.
NewAt(pc) ==
    {r \in BagToSet(tasks') : r.pc = pc /\ CopiesIn(r, tasks') > CopiesIn(r, tasks)}

\* The target with strictly more votes than every other one, if any.
Plurality(tally) ==
    LET n(t) == Cardinality({v \in DOMAIN tally : tally[v] = t})
        top == {t \in Targets(tally) : \A u \in Targets(tally) \ {t} : n(t) > n(u)}
    IN  IF top = {} THEN None ELSE CHOOSE t \in top : TRUE

\* C15: the kill target a night resolution works with is the plurality of
\* the werewolf votes (none on a tie) and the protected player is the
\* doctor's recorded target, both as they are when the NIGHT timer fires; the
\* kill target dies iff it is not the protected player and is alive in the
\* roster, so nobody dies when the two are equal; and the death list of
\* night_result holds exactly the players whose alive flag changed, at most
\* one.
C15_NightKill ==
    [][/\ \A r \in NewAt("rn_seer") \cup
                   (IF NightTimerFires THEN NewAt("rn_result") ELSE {}) :
              /\ r.kill_target_id = Plurality(werewolf_votes)
              /\ r.protected_id = doctor_target
       /\ \A r \in NewAt("rn_result") :
              LET k == r.kill_target_id
                  dies == /\ k # None
                          /\ k # r.protected_id
                          /\ k \in Ids(players)
                          /\ Get(players, k).is_alive
                  changed == {i \in DOMAIN players :
                                 players[i].is_alive # players'[i].is_alive}
              IN  /\ Len(players') = Len(players)
                  /\ \A i \in DOMAIN players :
                         players'[i].is_alive =
                             (players[i].is_alive /\ ~(dies /\ players[i].id = k))
                  /\ k = r.protected_id => changed = {}
                  /\ r.msg.event = "night_result"
                  /\ r.msg.to = ROOM
                  /\ r.msg.deaths = {players[i].id : i \in changed}
                  /\ Cardinality(r.msg.deaths) <= 1]_vars

\* A night resolution emits an empty death list because the doctor
\* protected the player the werewolves chose.
C15_Witness ==
    \E r \in Running :
        /\ r.pc = "rn_result"
        /\ r.kill_target_id # None
        /\ r.kill_target_id = r.protected_id
        /\ r.kill_target_id \in Ids(players)
        /\ Get(players, r.kill_target_id).is_alive
        /\ r.msg.deaths = {}

\* Tasks of the timer callback leave pc in this step.
Leaves(pc) == At(tasks', "timer", pc) < At(tasks, "timer", pc)

\* C16: when the NIGHT timer fires the resolution reaches the night_result
\* emit (after the seer_result emit, if one is due); when night_result has
\* been emitted the win condition decides: with a winner the callback goes
\* on to end the game, round_number unchanged, and the room ends in ENDED
\* without entering DAY; without one round_number grows by exactly one and
\* the room enters DAY.
C16_NightBoundary ==
    [][/\ NightTimerFires => NewAt("rn_seer") \cup NewAt("rn_result") # {}
       /\ Leaves("rn_seer") => NewAt("rn_result") # {}
       /\ Leaves("rn_result") =>
              IF check_win_condition(players) # None
              THEN /\ NewAt("ce_ended") # {}
                   /\ round_number' = round_number
                   /\ phase' = phase
              ELSE /\ round_number' = round_number + 1
                   /\ phase' = DAY
       /\ Leaves("ce_ended") =>
              /\ phase' = ENDED
              /\ round_number' = round_number]_vars

C18_TallyChangesInPhase ==
    [][/\ votes' # votes =>
              \/ phase = VOTING /\ phase' = VOTING
              \/ Enters(VOTING) /\ votes' = EmptyTally
       /\ <<werewolf_votes', seer_target', doctor_target'>>
              # <<werewolf_votes, seer_target, doctor_target>> =>
              \/ phase = NIGHT /\ phase' = NIGHT
              \/ /\ Enters(NIGHT)
                 /\ werewolf_votes' = EmptyTally
                 /\ seer_target' = None
                 /\ doctor_target' = None]_vars

\* A submit method is called in this step.
Called(op) == env'.calls < env.calls /\ hist'.call.op = op

\* Player id is in the roster and alive.
InPlay(ps, id) == \E i \in DOMAIN ps : ps[i].id = id /\ ps[i].is_alive

\* The tally after is the tally before with k's choice set to v, and
\* nothing else.
SetsOnly(before, after, k, v) ==
    /\ DOMAIN after = DOMAIN before \cup {k}
    /\ after[k] = v
    /\ \A x \in DOMAIN before \ {k} : after[x] = before[x]

\* C19: submit_vote(v, t) and submit_seer_action(s, t) return True iff actor
\* and target are both in the roster, both alive and distinct; on True
\* exactly the actor's choice is set to t, replacing an earlier one; on
\* False no state changes.
C19_VoteAndSeerSubmission ==
    [][\A op \in {"submit_vote", "submit_seer_action"} :
          Called(op) =>
              LET c == hist'.call
                  ok == /\ InPlay(players, c.actor)
                        /\ InPlay(players, c.target)
                        /\ c.actor # c.target
              IN  /\ c.ret = ok
                  /\ ok /\ op = "submit_vote" =>
                         /\ SetsOnly(votes, votes', c.actor, c.target)
                         /\ UNCHANGED <<exists, players, phase, round_number,
                                        werewolf_votes, seer_target, doctor_target>>
                  /\ ok /\ op = "submit_seer_action" =>
                         /\ seer_target' = c.target
                         /\ UNCHANGED <<exists, players, phase, round_number,
                                        votes, werewolf_votes, doctor_target>>
                  /\ ~ok => UNCHANGED room]_vars

\* A day vote has replaced the voter's earlier vote for another player.
C19_Witness ==
    /\ hist.call.op = "submit_vote"
    /\ hist.call.ret
    /\ hist.call.replaced \notin {None, hist.call.target}
    /\ votes[hist.call.actor] = hist.call.target

\* C20: submit_werewolf_vote(w, t) returns True iff w and t are both in the
\* roster, both alive and t's role is not WEREWOLF; on True
\* werewolf_votes[w] is set to t, replacing an earlier choice of w; on False
\* werewolf_votes is unchanged.
C20_WerewolfVoteSubmission ==
    [][Called("submit_werewolf_vote") =>
          LET c == hist'.call
              ok == /\ InPlay(players, c.actor)
                    /\ InPlay(players, c.target)
                    /\ \A i \in DOMAIN players :
                           players[i].id = c.target => players[i].role # WEREWOLF
          IN  /\ c.ret = ok
              /\ ok => SetsOnly(werewolf_votes, werewolf_votes', c.actor, c.target)
              /\ ~ok => werewolf_votes' = werewolf_votes
              /\ UNCHANGED <<exists, players, phase, round_number, votes,
                             seer_target, doctor_target>>]_vars

\* A werewolf vote has replaced the earlier choice of the same player.
C20_Witness ==
    /\ hist.call.op = "submit_werewolf_vote"
    /\ hist.call.ret
    /\ hist.call.replaced \notin {None, hist.call.target}
    /\ werewolf_votes[hist.call.actor] = hist.call.target

\* A living player whose role is WEREWOLF calls submit_werewolf_vote on
\* itself in this step.
WolfTargetsItself ==
    /\ Called("submit_werewolf_vote")
    /\ hist'.call.actor = hist'.call.target
    /\ InPlay(players, hist'.call.actor)
    /\ Get(players, hist'.call.actor).role = WEREWOLF

\* C21, as stated: submit_werewolf_vote(w, w) by a living werewolf w returns
\* True and records w -> w.
C21_AsStated ==
    [][WolfTargetsItself =>
          /\ hist'.call.ret
          /\ Choice(werewolf_votes', hist'.call.actor) = hist'.call.actor]_vars

\* C21: submit_werewolf_vote(w, w) by a living werewolf w returns False and
\* leaves werewolf_votes as it was (the target's role is WEREWOLF); a living
\* player whose role is not WEREWOLF is accepted when it targets itself.
C21_WolfSelfTargetRefused ==
    [][/\ WolfTargetsItself =>
              /\ ~hist'.call.ret
              /\ werewolf_votes' = werewolf_votes
       /\ /\ Called("submit_werewolf_vote")
          /\ hist'.call.actor = hist'.call.target
          /\ InPlay(players, hist'.call.actor)
          /\ Get(players, hist'.call.actor).role # WEREWOLF
          => /\ hist'.call.ret
             /\ Choice(werewolf_votes', hist'.call.actor) = hist'.call.actor]_vars

\* A living werewolf has targeted itself and was turned down.
C21_Witness ==
    /\ hist.call.op = "submit_werewolf_vote"
    /\ hist.call.actor = hist.call.target
    /\ InPlay(players, hist.call.actor)
    /\ Get(players, hist.call.actor).role = WEREWOLF
    /\ ~hist.call.ret
    /\ hist.call.actor \notin DOMAIN werewolf_votes

\* C22: submit_doctor_action(d, t) returns True iff d and t are both in the
\* roster and both alive, t = d included; on True doctor_target is set to t,
\* replacing an earlier target; on False doctor_target is unchanged.
C22_DoctorSubmission ==
    [][Called("submit_doctor_action") =>
          LET c == hist'.call
              ok == InPlay(players, c.actor) /\ InPlay(players, c.target)
          IN  /\ c.ret = ok
              /\ doctor_target' = IF ok THEN c.target ELSE doctor_target
              /\ UNCHANGED <<exists, players, phase, round_number, votes,
                             werewolf_votes, seer_target>>]_vars

\* The doctor has protected itself, replacing an earlier target.
C22_Witness ==
    /\ hist.call.op = "submit_doctor_action"
    /\ hist.call.ret
    /\ hist.call.actor = hist.call.target
    /\ hist.call.replaced \notin {None, hist.call.target}
    /\ doctor_target = hist.call.target

\* C23: get_elimination_target over the day votes and
\* get_werewolf_kill_target over the werewolf votes both return the target
\* with strictly more votes than every other one, and nothing when the tally
\* is empty or the maximum is shared; the result is never a target without a
\* vote.
C23_PluralityTieToNone ==
    [][/\ Called("get_elimination_target") =>
              /\ hist'.call.value = Plurality(votes)
              /\ hist'.call.value \in Targets(votes) \cup {None}
              /\ votes = EmptyTally => hist'.call.value = None
       /\ Called("get_werewolf_kill_target") =>
              /\ hist'.call.value = Plurality(werewolf_votes)
              /\ hist'.call.value \in Targets(werewolf_votes) \cup {None}
              /\ werewolf_votes = EmptyTally => hist'.call.value = None]_vars

\* get_elimination_target has returned nothing for three votes that are
\* split over three targets.
C23_Witness ==
    /\ hist.call.op = "get_elimination_target"
    /\ hist.call.value = None
    /\ Cardinality(DOMAIN votes) = 3
    /\ Cardinality(Targets(votes)) = 3

\* C24: check_win_condition returns TOWN iff no living player has role
\* WEREWOLF; otherwise MAFIA iff the living werewolves are at least as many
\* as the living players of team TOWN; otherwise nothing.  With nobody
\* alive on either side the result is TOWN.
C24_WinCondition ==
    [][Called("check_win_condition") =>
          LET wolves == {i \in DOMAIN players :
                            players[i].is_alive /\ players[i].role = WEREWOLF}
              town == {i \in DOMAIN players :
                          players[i].is_alive /\ players[i].team = TOWN}
              v == hist'.call.value
          IN  /\ v = TOWN <=> wolves = {}
              /\ wolves # {} =>
                     (v = MAFIA <=> Cardinality(wolves) >= Cardinality(town))
              /\ v \in {TOWN, MAFIA, None}]_vars

\* The roles are dealt, nobody is alive, and check_win_condition has
\* returned TOWN.
C24_Witness ==
    /\ hist.call.op = "check_win_condition"
    /\ hist.call.value = TOWN
    /\ Len(players) >= 3
    /\ \A i \in DOMAIN players : players[i].role # None /\ ~players[i].is_alive

\* The table of the role distribution: how many players of n get role.
TableCount(n, role) ==
    CASE role = WEREWOLF -> IF n >= 6 THEN 2 ELSE 1
      [] role = SEER -> IF n >= 4 THEN 1 ELSE 0
      [] role = DOCTOR -> IF n >= 6 THEN 1 ELSE 0
      [] role = VILLAGER -> IF n >= 6 THEN n - 4 ELSE IF n >= 4 THEN n - 2 ELSE n - 1

\* C25, as stated: for every roster size, 0 included, get_role_distribution
\* returns exactly as many roles as there are players.
C25_AsStated ==
    [][Called("get_role_distribution") =>
          Len(hist'.call.value) = hist'.call.arg]_vars

\* C25: for every roster size N >= 1 get_role_distribution(N) returns
\* exactly N roles, as many of each role as the table says, and
\* get_role_distribution(0) returns the single role WEREWOLF; assign_roles
\* gives every player of a non-empty roster one role with its team, the
\* roles dealt being those of the list, and touches nothing else.
C25_RoleDistribution ==
    [][/\ Called("get_role_distribution") =>
              LET n == hist'.call.arg
                  roles == hist'.call.value
              IN  IF n >= 1
                  THEN /\ Len(roles) = n
                       /\ \A role \in Role : Count(roles, role) = TableCount(n, role)
                  ELSE roles = <<WEREWOLF>>
       /\ env'.deals < env.deals =>
              /\ Len(players') = Len(players)
              /\ \A i \in DOMAIN players :
                     /\ players'[i].role \in Role
                     /\ players'[i].team = ROLE_TEAMS(players'[i].role)
                     /\ players'[i].id = players[i].id
                     /\ players'[i].is_alive = players[i].is_alive
                     /\ players'[i].is_host = players[i].is_host
              /\ \A role \in Role :
                     Cardinality({i \in DOMAIN players : players'[i].role = role})
                         = IF Len(players) = 0 THEN 0
                           ELSE TableCount(Len(players), role)]_vars

\* Six players have been dealt two werewolves, a seer and a doctor.
C25_Witness ==
    /\ hist.call.op = "assign_roles"
    /\ Len(players) = 6
    /\ Cardinality(get_players_by_role(players, WEREWOLF)) = 2
    /\ Cardinality(get_players_by_role(players, DOCTOR)) = 1

\* Every player of the roster has the team of its role, and no team
\* without a role.
TeamFollowsRole(ps) ==
    \A i \in DOMAIN ps :
        IF ps[i].role = None THEN ps[i].team = None
        ELSE ps[i].role \in Role /\ ps[i].team = ROLE_TEAMS(ps[i].role)

\* C26: in every state every player of every room has the team of its role
\* (WEREWOLF -> MAFIA, the other roles -> TOWN) and no team when it has no
\* role, the players that joined after the game started included.
C26_TeamFollowsRole ==
    /\ TeamFollowsRole(players)
    /\ \A r \in DOMAIN games : TeamFollowsRole(games[r])

\* The game is in DAY, a werewolf of team MAFIA is in the roster and so is
\* a player that joined after the roles were dealt.
C26_Witness ==
    /\ phase = DAY
    /\ \E i \in DOMAIN players :
           players[i].role = WEREWOLF /\ players[i].team = MAFIA
    /\ \E i \in DOMAIN players :
           players[i].id = "p5" /\ players[i].role = None /\ players[i].team = None

\* game_manager.games before and after the step.
Rooms == Registry(exists, players, games)

RoomsAfter == Registry(exists', players', games')

\* The ids of the players of the roster that have the host flag.
Hosts(ps) == {ps[i].id : i \in {j \in DOMAIN ps : ps[j].is_host}}

\* C27: after any sequence of join_room, leave_room and disconnect_player
\* every room with a non-empty roster has exactly one player with the host
\* flag.
C27_OneHost ==
    \A r \in DOMAIN Rooms :
        Len(Rooms[r]) > 0 => Cardinality(Hosts(Rooms[r])) = 1

\* C28: disconnect_player of the host of a room with other players left
\* makes exactly one of them host and returns its id as new_host_id;
\* disconnect_player of a player that is not host leaves the host flags
\* alone and returns no new_host_id; when the room becomes empty it is
\* deleted and there is no new_host_id.
C28_HostTransfer ==
    [][Called("disconnect_player") =>
          LET sid == hist'.call.sid
              result == hist'.call.value
              room_id == get_player_room(Rooms, sid)
          IN  room_id # None =>
                  LET rest == remove_player(Rooms[room_id], sid)
                  IN  /\ result.room_id = room_id
                      /\ result.player_id = sid
                      /\ IF Len(rest) = 0
                         THEN /\ result.new_host_id = None
                              /\ room_id \notin DOMAIN RoomsAfter
                         ELSE IF Get(Rooms[room_id], sid).is_host
                         THEN /\ result.new_host_id \in Ids(rest)
                              /\ Ids(RoomsAfter[room_id]) = Ids(rest)
                              /\ Hosts(RoomsAfter[room_id]) = {result.new_host_id}
                         ELSE /\ result.new_host_id = None
                              /\ RoomsAfter[room_id] = rest]_vars

\* The host of a room of three has disconnected and one of the two that
\* remain is the new host.
C28_Witness ==
    /\ hist.call.op = "disconnect_player"
    /\ hist.call.value.new_host_id # None
    /\ hist.call.value.room_id \in DOMAIN Rooms
    /\ Len(Rooms[hist.call.value.room_id]) = 2
    /\ Hosts(Rooms[hist.call.value.room_id]) = {hist.call.value.new_host_id}

\* The manager call of the step concerns room r: leave_room(r, sid), or
\* disconnect_player(sid) with sid found in r.
Concerns(r) ==
    \/ Called("leave_room") /\ hist'.call.room_id = r
    \/ Called("disconnect_player") /\ get_player_room(Rooms, hist'.call.sid) = r

\* C29: a room is in the registry once create_room made it; it is deleted
\* by the leave_room or disconnect_player after which its roster is empty,
\* and by nothing else: the room is deleted when its last player leaves or
\* disconnects, and a room that still has players is never deleted.
C29_RoomLifetime ==
    [][\A r \in {MAIN} \cup OtherRooms :
          /\ Called("create_room") /\ hist'.call.room_id = r =>
                 r \in DOMAIN RoomsAfter /\ RoomsAfter[r] = <<>>
          /\ r \in DOMAIN Rooms /\ r \notin DOMAIN RoomsAfter =>
                 /\ Concerns(r)
                 /\ remove_player(Rooms[r], hist'.call.sid) = <<>>
          /\ r \in DOMAIN Rooms /\ Concerns(r)
                 /\ remove_player(Rooms[r], hist'.call.sid) = <<>> =>
                 r \notin DOMAIN RoomsAfter
          /\ r \in DOMAIN Rooms /\ r \in DOMAIN RoomsAfter =>
                 (Len(Rooms[r]) > 0 => Len(RoomsAfter[r]) > 0)]_vars

\* The last player of the other room has left it through leave_room and
\* the room is gone, while the first room, which has players, is there.
C29_Witness ==
    /\ hist.call.op = "leave_room"
    /\ hist.call.room_id \in OtherRooms
    /\ hist.call.room_id \notin DOMAIN Rooms
    /\ exists
    /\ Len(players) > 0

\* C30: after leave_room(room, p) of a player of that room, and after
\* disconnect_player(p), get_player_room(p) is None and the room of every
\* other player is the one it was; disconnect_player of a player that is
\* in no room returns None and changes nothing.
C30_LeftEveryRoom ==
    [][LET sid == hist'.call.sid
       IN  /\ \/ /\ Called("leave_room")
                    /\ hist'.call.room_id \in DOMAIN Rooms
                    /\ sid \in Ids(Rooms[hist'.call.room_id])
                 \/ Called("disconnect_player")
              => /\ get_player_room(RoomsAfter, sid) = None
                 /\ \A q \in Clients \ {sid} :
                        get_player_room(RoomsAfter, q) = get_player_room(Rooms, q)
           /\ Called("disconnect_player") /\ get_player_room(Rooms, sid) = None
              => hist'.call.value = NoResult /\ RoomsAfter = Rooms]_vars

\* A timer wakes from its sleep in this step (it is not cancelled by the
\* end of the game).
TimerWakes ==
    /\ At(tasks', "timer", "sleep") < At(tasks, "timer", "sleep")
    /\ At(tasks', "timer", "ce_phase") = At(tasks, "timer", "ce_phase")

\* C31: when a timer wakes and its room has been deleted, the state of the
\* room and of every other room is left as it is, nothing is emitted, and
\* the callback ends without scheduling a timer: the tasks are those of
\* before without it.
C31_TimerOfDeletedRoom ==
    [][~exists /\ TimerWakes =>
          /\ UNCHANGED room
          /\ BagCardinality(tasks') = BagCardinality(tasks) - 1
          /\ At(tasks', "timer", "sleep") = At(tasks, "timer", "sleep") - 1
          /\ \A pc \in EmitPoints : At(tasks', "timer", pc) = At(tasks, "timer", pc)]_vars

\* The room was deleted in NIGHT and no task is left: its timer has woken
\* and ended.
C31_Witness ==
    /\ ~exists
    /\ phase = NIGHT
    /\ round_number = 1
    /\ tasks = EmptyBag

\* C32: a start_game or skip_to_voting request from a client that is not
\* in the roster of a room, or is in it without the host flag, is answered
\* with success False and changes nothing in any room: no phase, role,
\* tally, deadline or task.
C32_HostOnlyRequests ==
    [][(Called("start_game") \/ Called("skip_to_voting"))
          /\ ~(exists /\ IsHost(players, hist'.call.sid))
          => ~hist'.call.ok /\ UNCHANGED <<room, tasks>>]_vars

\* In DAY a player of the room that is not its host has asked for the skip
\* and was refused; the room is still in DAY.
C32_Witness ==
    /\ hist.call.op = "skip_to_voting"
    /\ ~hist.call.ok
    /\ hist.call.sid \in Ids(players)
    /\ ~IsHost(players, hist.call.sid)
    /\ phase = DAY

\* The phase_changed notifications whose emit begins in this step.
PhaseNotices ==
    {r.msg : r \in {x \in BagToSet(tasks') :
                       x.msg.event = "phase_changed" /\ Sent(x.msg)}}

\* C33: when the emit of a phase_changed notification begins, the room is
\* in the announced phase with the announced duration and deadline, and the
\* announced round_number is the one of the room.
C33_NoticeAfterEntry ==
    [][\A m \in PhaseNotices :
          /\ m.phase = phase'
          /\ m.duration = phase_duration'
          /\ m.ends_at = phase_ends_at'
          /\ m.round_number = round_number']_vars

\* The second DAY is being announced: a task is at the phase_changed emit
\* of DAY, round 2.
C33_Witness ==
    /\ phase = DAY
    /\ round_number = 2
    /\ \E r \in Running :
           /\ r.pc = "tt_emit"
           /\ r.msg.event = "phase_changed"
           /\ r.msg.phase = DAY
           /\ r.msg.round_number = 2

\* C34: the chat log only grows, by one entry at its end; when an entry is
\* appended its sender is in the roster and alive and the room is not in
\* NIGHT; a send_message that is refused leaves the log as it is.
C34_ChatLog ==
    [][/\ messages' # messages =>
              /\ Len(messages') = Len(messages) + 1
              /\ SubSeq(messages', 1, Len(messages)) = messages
              /\ InRosterAlive(players, messages'[Len(messages')].player_id)
              /\ phase # NIGHT
       /\ Called("send_message") /\ ~hist'.call.ok => messages' = messages]_vars

\* The six players are in the roster, alive, with two werewolves, a seer, a
\* doctor and two villagers.
SixDealt(ps) ==
    /\ Len(ps) = 6
    /\ Cardinality(get_players_by_role(ps, WEREWOLF)) = 2
    /\ Cardinality(get_players_by_role(ps, SEER)) = 1
    /\ Cardinality(get_players_by_role(ps, DOCTOR)) = 1
    /\ Cardinality(get_players_by_role(ps, VILLAGER)) = 2

\* The first NIGHT of the six: both werewolves have voted for the villager
\* v, the doctor protects somebody else and the seer has not investigated.
WolvesAgreeOn(v) ==
    /\ phase = NIGHT
    /\ round_number = 1
    /\ SixDealt(players)
    /\ \A i \in DOMAIN players : players[i].is_alive
    /\ v \in get_players_by_role(players, VILLAGER)
    /\ DOMAIN werewolf_votes = get_players_by_role(players, WEREWOLF)
    /\ \A w \in DOMAIN werewolf_votes : werewolf_votes[w] = v
    /\ doctor_target \notin {None, v}
    /\ seer_target = None

\* The night_result of that night is being emitted: v is dead, alone, and
\* the six are in the roster.
VictimReported(v) ==
    /\ phase = NIGHT
    /\ round_number = 1
    /\ SixDealt(players)
    /\ v \in get_players_by_role(players, VILLAGER)
    /\ \A i \in DOMAIN players : players[i].is_alive = (players[i].id # v)
    /\ \E r \in Running : r.pc = "rn_result" /\ r.msg.deaths = {v}

\* C35: the six players have two werewolves, a seer, a doctor and two
\* villagers and the started room is in DAY, round 1.  When the timer of the
\* first NIGHT fires with both werewolves voting for the same villager, the
\* doctor protecting another player and no seer target, the villager is
\* marked not-alive and nobody else, night_result is emitted with exactly
\* that villager in its death list and no seer_result is emitted; when that
\* night_result has been emitted the room enters DAY with round_number 2.
C35_SixPlayerNight ==
    /\ SixDealt(players) /\ phase = DAY /\ round_number = 1
    /\ [][\A v \in Sids :
              /\ WolvesAgreeOn(v) /\ NightTimerFires =>
                     /\ \A i \in DOMAIN players :
                            /\ players'[i].id = players[i].id
                            /\ players'[i].is_alive = (players[i].id # v)
                     /\ NewAt("rn_seer") = {}
                     /\ NewAt("rn_result") # {}
                     /\ \A r \in NewAt("rn_result") :
                            r.msg = NightResult({v})
              /\ VictimReported(v) /\ Leaves("rn_result") =>
                     /\ phase' = DAY
                     /\ round_number' = 2
                     /\ players' = players]_vars

\* The second DAY of the six has begun and a villager, nobody else, is
\* dead.
C35_Witness ==
    /\ phase = DAY
    /\ round_number = 2
    /\ SixDealt(players)
    /\ \E v \in get_players_by_role(players, VILLAGER) :
           \A i \in DOMAIN players : players[i].is_alive = (players[i].id # v)
    /\ DOMAIN werewolf_votes = get_players_by_role(players, WEREWOLF)
    /\ doctor_target # None
    /\ seer_target = None


\* The night roles: the roles with a night action.
NightRoles == {WEREWOLF, SEER, DOCTOR}

Holds(ps, id, role) == InRosterAlive(ps, id) /\ Get(ps, id).role = role

NoNightRole(ps, id) == id \notin Ids(ps) \/ Get(ps, id).role \notin NightRoles

Resolving(b) == At(b, "timer", "rn_seer") + At(b, "timer", "rn_result")

\* C37: when the NIGHT timer fires a seer_result is emitted iff a seer
\* target is recorded, the target is in the roster and a living SEER exists;
\* it carries the role the target has in the roster; it is emitted before
\* the kill is applied (the roster is unchanged by that step, and the kill
\* follows when the emit returns); and no second one is emitted in the same
\* night: no other callback is resolving that NIGHT when one is emitted.
C37_SeerResult ==
    [][/\ NightTimerFires =>
              /\ NewAt("rn_seer") # {} <=> SeerEmits(players, seer_target)
              /\ \A r \in NewAt("rn_seer") :
                     /\ r.msg.event = "seer_result"
                     /\ r.msg.target_id = seer_target
                     /\ r.msg.role = Get(players, seer_target).role
                     /\ players' = players
                     /\ Resolving(tasks) = 0
       /\ Leaves("rn_seer") => NewAt("rn_result") # {}
      ]_vars


\* The tasks that carry the phase machine on: a timer asleep, a timer
\* callback, or a start_game / skip_to_voting call on its way to schedule one.
Carriers(b) == {r \in BagToSet(b) : r.kind \in {"timer", "start", "skip"}}

\* C38: while the room exists and is in DAY, VOTING or NIGHT the deadline of
\* the phase is set and a task that will leave the phase is pending: the
\* timer of the phase, its callback, or the call that is about to schedule
\* the timer.  A timed phase with no such task is never left.
C38_NeverStalls ==
    (exists /\ phase \in {DAY, VOTING, NIGHT}) =>
        /\ phase_duration = PHASE_DURATIONS(phase)
        /\ phase_ends_at = Deadline(phase_duration)
        /\ Carriers(tasks) # {}


\* The players of both rosters whose alive flag differs.
Flipped(before, after) ==
    {id \in Ids(before) \cap Ids(after) :
        Get(before, id).is_alive # Get(after, id).is_alive}

\* C39: a player who stays in the roster never goes from not-alive to
\* alive; an alive flag changes only in a step of the timer callback that
\* resolves a VOTING or NIGHT boundary; and such a step marks at most one
\* player not-alive.
C39_DeadStayDead ==
    [][/\ \A id \in Flipped(players, players') : Get(players, id).is_alive
       /\ Flipped(players, players') # {} =>
              /\ phase \in {VOTING, NIGHT}
              /\ Leaves("sleep") \/ Leaves("rn_seer")
       /\ Cardinality(Flipped(players, players')) <= 1]_vars


\* game_ended has been emitted: a callback is at that emit or past it, or
\* the room is in ENDED.
GameOver ==
    \/ phase = ENDED
    \/ At(tasks, "timer", "ce_ended") + At(tasks, "timer", "ce_phase") > 0

\* C40: once game_ended has been emitted no submit_vote and no night_action
\* request is accepted and no tally or night target changes, before the
\* phase becomes ENDED and after.
C40_NoSubmissionAfterGameEnded ==
    [][GameOver =>
          /\ UNCHANGED <<votes, werewolf_votes, seer_target, doctor_target>>
          /\ \A sid \in Sids, target_id \in Sids :
                 ~SubmitVote(sid, target_id) /\ ~NightAction(sid, target_id)]_vars

====
